---- MODULE Spec2Model ----
(***************************************************************************)
(* A model of the keyword-search core of the JRE transcript analyzer:      *)
(* the match classifier is_valid_match (src/jre_analyzer/search.py), the   *)
(* frequency store (src/jre_analyzer/database.py), the indexer             *)
(* (src/jre_analyzer/analyzer.py) and search().                            *)
(*                                                                         *)
(* A Python str is modelled as a sequence of one-character strings, so     *)
(* "joy" is <<"j","o","y">>.  Python positions are 0-based; the helper     *)
(* operators below keep Python's conventions (find returns -1 when the     *)
(* substring is absent).                                                   *)
(***************************************************************************)
EXTENDS Integers, Sequences, FiniteSets, TLC

VARIABLES
    word,                \* is_valid_match: the transcript token handed to the call
    term,                \* is_valid_match: the search term handed to the call
    outcome,             \* "pending" before the call; afterwards what the call did
    episodes,            \* table episodes: a set of rows, key id
    last_id,             \* the AUTOINCREMENT counter of episodes.id
    word_frequencies,    \* table word_frequencies: rows, key (episode_id, word)
    minute_frequencies,  \* table minute_frequencies: rows, key (episode_id, minute, word)
    snowball_installed,  \* whether `import snowballstemmer` succeeded in this build
    HAS_SCIPY,           \* whether `import numpy` and `from scipy import stats` succeeded
    in_flight,           \* the handlers under way on the store, each with its position and locals
    result,              \* what the last call (search, merge, estimate, ...) handed its caller
    query                \* the arguments of that call

match_vars == <<word, term, outcome>>

store_vars == <<episodes, last_id, word_frequencies, minute_frequencies, snowball_installed, HAS_SCIPY, in_flight>>

vars == <<word, term, outcome, episodes, last_id, word_frequencies,
          minute_frequencies, snowball_installed, HAS_SCIPY, in_flight,
          result, query>>

\* a SearchResult not (or no longer) held by any caller
NoResult ==
    [status |-> "none", keyword |-> <<>>, episodes |-> <<>>,
     avg_last |-> <<>>, avg_pm_last |-> <<>>]

\* no search() call is under way
NoQuery == [keyword |-> <<>>, episode_ids |-> [given |-> FALSE, ids |-> <<>>]]

\* no handler is under way: the searching, indexing, re-indexing and deleting
\* threads are all between calls
NoHandlers ==
    [search |-> [pc |-> "idle", raw_rows |-> {}, seen |-> {}],
     index |-> [pc |-> "idle", episode_id |-> 0, episode_freq |-> {}, minute_freq |-> {}],
     reindex |-> [pc |-> "idle"],
     delete |-> [pc |-> "idle", episode_id |-> 0]]

\* the schema just created: no episode, no frequency row
EmptyStore ==
    /\ episodes = {}
    /\ last_id = 0
    /\ word_frequencies = {}
    /\ minute_frequencies = {}

----------------------------------------------------------------------------
(* Python str primitives.                                                  *)

\* s[i:] for 0 <= i  (Python slicing never raises)
slice_from(s, i) == IF i >= Len(s) THEN <<>> ELSE SubSeq(s, i + 1, Len(s))

\* s.startswith(p)
startswith(s, p) == Len(p) <= Len(s) /\ SubSeq(s, 1, Len(p)) = p

\* s.endswith(p)
endswith(s, p) == Len(p) <= Len(s) /\ SubSeq(s, Len(s) - Len(p) + 1, Len(s)) = p

\* the 0-based positions at which sub occurs in s
occurrences(s, sub) ==
    {i \in 0..(Len(s) - Len(sub)) : SubSeq(s, i + 1, i + Len(sub)) = sub}

\* s.find(sub): the lowest position of sub in s, -1 when there is none
find(s, sub) ==
    IF occurrences(s, sub) = {} THEN -1
    ELSE CHOOSE i \in occurrences(s, sub) : \A j \in occurrences(s, sub) : i <= j

----------------------------------------------------------------------------
(* The classifier's tables.                                                *)

VOWELS == {"a", "e", "i", "o", "u"}

FALSE_COMPOUNDS ==
    {<<<<"t","h","i","r","t","e","e","n">>, <<"t","e","e","n">>>>,
     <<<<"f","o","u","r","t","e","e","n">>, <<"t","e","e","n">>>>,
     <<<<"f","i","f","t","e","e","n">>, <<"t","e","e","n">>>>,
     <<<<"s","i","x","t","e","e","n">>, <<"t","e","e","n">>>>,
     <<<<"s","e","v","e","n","t","e","e","n">>, <<"t","e","e","n">>>>,
     <<<<"e","i","g","h","t","e","e","n">>, <<"t","e","e","n">>>>,
     <<<<"n","i","n","e","t","e","e","n">>, <<"t","e","e","n">>>>,
     <<<<"f","u","n","d","a","m","e","n","t","a","l">>, <<"f","u","n">>>>,
     <<<<"f","u","n","d","a","m","e","n","t","a","l","s">>, <<"f","u","n">>>>,
     <<<<"f","u","n","d","a","m","e","n","t","a","l","l","y">>, <<"f","u","n">>>>,
     <<<<"f","u","n","d","a","m","e","n","t","a","l","i","s","t">>, <<"f","u","n">>>>,
     <<<<"f","u","n","d","a","m","e","n","t","a","l","i","s","t","s">>, <<"f","u","n">>>>,
     <<<<"f","u","n","d","a","m","e","n","t","a","l","i","s","m">>, <<"f","u","n">>>>,
     <<<<"f","u","n","c","t","i","o","n">>, <<"f","u","n">>>>,
     <<<<"f","u","n","c","t","i","o","n","s">>, <<"f","u","n">>>>,
     <<<<"f","u","n","c","t","i","o","n","a","l">>, <<"f","u","n">>>>,
     <<<<"f","u","n","c","t","i","o","n","a","l","l","y">>, <<"f","u","n">>>>,
     <<<<"f","u","n","c","t","i","o","n","a","l","i","t","y">>, <<"f","u","n">>>>,
     <<<<"f","u","n","c","t","i","o","n","i","n","g">>, <<"f","u","n">>>>,
     <<<<"f","u","n","d">>, <<"f","u","n">>>>,
     <<<<"f","u","n","d","s">>, <<"f","u","n">>>>,
     <<<<"f","u","n","d","e","d">>, <<"f","u","n">>>>,
     <<<<"f","u","n","d","i","n","g">>, <<"f","u","n">>>>}

DERIVATIONAL_SUFFIXES ==
    {<<"f","u","l">>, <<"f","u","l","l","y">>, <<"n","e","s","s">>,
     <<"n","e","s","s","e","s">>, <<"l","y">>, <<"o","u","s">>,
     <<"o","u","s","l","y">>, <<"o","u","s","n","e","s","s">>, <<"i","s","h">>,
     <<"t","i","o","n">>, <<"t","i","o","n","s">>, <<"s","i","o","n">>,
     <<"s","i","o","n","s">>, <<"a","l">>, <<"i","a","l">>,
     <<"i","a","l","s">>, <<"i","a","l","l","y">>, <<"i","v","e">>,
     <<"i","v","e","s">>, <<"i","v","e","l","y">>, <<"m","e","n","t">>,
     <<"m","e","n","t","s">>, <<"l","e","s","s">>, <<"l","e","s","s","l","y">>,
     <<"l","e","s","s","n","e","s","s">>, <<"d","o","m">>, <<"h","o","o","d">>,
     <<"s","h","i","p">>, <<"s","h","i","p","s">>, <<"i","t","y">>,
     <<"i","t","i","e","s">>, <<"i","z","e">>, <<"i","z","e","d">>,
     <<"i","z","e","s">>, <<"i","z","i","n","g">>, <<"i","s","e">>,
     <<"i","s","e","d">>, <<"i","s","e","s">>, <<"i","s","i","n","g">>,
     <<"i","f","y">>, <<"i","f","i","e","d">>, <<"i","f","y","i","n","g">>,
     <<"a","t","e">>, <<"a","t","e","d">>, <<"a","t","i","n","g">>,
     <<"a","t","i","o","n">>, <<"a","t","i","o","n","s">>, <<"i","n","g">>,
     <<"i","n","g","s">>, <<"e","d">>, <<"e","r">>,
     <<"e","r","s">>, <<"e","s","t">>, <<"i","e","r">>,
     <<"i","e","s","t">>, <<"e","n">>, <<"e","n","s">>,
     <<"w","a","r","d">>, <<"w","a","r","d","s">>, <<"w","i","s","e">>}

DIMINUTIVE_SUFFIXES == {<<"y">>, <<"i","e">>, <<"i","e","s">>}

\* _FALSE_PREFIX_STEMS.get(term, ()): only the term "fun" has stems
FALSE_PREFIX_STEMS(t) ==
    IF t = <<"f","u","n">>
    THEN {<<"f","u","n","n">>, <<"f","u","n","d">>, <<"f","u","n","c","t">>}
    ELSE {}

----------------------------------------------------------------------------
(* is_valid_match.  A call ends in one of three ways: it returns True, it  *)
(* returns False, or it raises IndexError (term[-1] on an empty term).     *)

RetTrue == "True"
RetFalse == "False"
IndexError == "IndexError"

\* in_exception_tables with the blocklist pair looked up the wrong way round
in_exception_tables_swapped(w, t) ==
    \/ <<t, w>> \in FALSE_COMPOUNDS
    \/ \E stem \in FALSE_PREFIX_STEMS(t) : startswith(w, stem)

\* rules 0 and 0b: the false-compound blocklist and the false-prefix stems
in_exception_tables(w, t) ==
    \/ <<w, t>> \in FALSE_COMPOUNDS
    \/ \E stem \in FALSE_PREFIX_STEMS(t) : startswith(w, stem)

\* exact_or_plural with + "s" accepted for every term
exact_or_plural_any_s(w, t) ==
    \/ w = t
    \/ w = t \o <<"e","s">>
    \/ w = t \o <<"s">>

\* exact_or_plural with the "e" guard put on + "es" as well
exact_or_plural_es_guarded(w, t) ==
    \/ w = t
    \/ (w = t \o <<"e","s">> /\ ~endswith(t, <<"e">>))
    \/ (w = t \o <<"s">> /\ ~endswith(t, <<"e">>))

\* rules 1 and 2: exact, +es, and +s unless the term ends in "e"
exact_or_plural(w, t) ==
    \/ w = t
    \/ w = t \o <<"e","s">>
    \/ (w = t \o <<"s">> /\ ~endswith(t, <<"e">>))

\* compound_at_start with the length test off by one (> for >=)
compound_at_start_longer(after, t) ==
    IF after = <<>> THEN RetFalse
    ELSE IF t = <<>> THEN IndexError
    ELSE IF after[1] = t[Len(t)] /\ Tail(after) \in DERIVATIONAL_SUFFIXES
        THEN RetFalse
    ELSE IF after[1] = t[Len(t)] /\ Tail(after) \in DIMINUTIVE_SUFFIXES
        THEN RetFalse
    ELSE IF after \in DIMINUTIVE_SUFFIXES THEN RetFalse
    ELSE IF after[1] = "s" /\ Tail(after) \in DIMINUTIVE_SUFFIXES THEN RetFalse
    ELSE IF after \in DERIVATIONAL_SUFFIXES THEN RetFalse
    ELSE IF Len(after) > Len(t) /\ after[1] \notin VOWELS THEN RetTrue
    ELSE RetFalse

\* rule 3, pos == 0: the term starts the word and `after` follows it
compound_at_start(after, t) ==
    IF after = <<>> THEN RetFalse
    ELSE IF t = <<>> THEN IndexError       \* term[-1] of the empty string
    ELSE IF after[1] = t[Len(t)] /\ Tail(after) \in DERIVATIONAL_SUFFIXES
        THEN RetFalse
    ELSE IF after[1] = t[Len(t)] /\ Tail(after) \in DIMINUTIVE_SUFFIXES
        THEN RetFalse
    ELSE IF after \in DIMINUTIVE_SUFFIXES THEN RetFalse
    ELSE IF after[1] = "s" /\ Tail(after) \in DIMINUTIVE_SUFFIXES THEN RetFalse
    ELSE IF after \in DERIVATIONAL_SUFFIXES THEN RetFalse
    ELSE IF Len(after) >= Len(t) /\ after[1] \notin VOWELS THEN RetTrue
    ELSE RetFalse

\* compound_embedded without the test on the length of the prefix
compound_embedded_any_prefix(pos, after, t) ==
    IF after # <<>> /\ after \notin {<<"s">>, <<"e","s">>} THEN RetFalse
    ELSE RetTrue

\* compound_embedded with "es" left out of the plural suffixes
compound_embedded_s_only(pos, after, t) ==
    IF pos < Len(t) THEN RetFalse
    ELSE IF after # <<>> /\ after # <<"s">> THEN RetFalse
    ELSE RetTrue

\* rule 3, pos > 0: the term is in the middle or at the end of the word
compound_embedded(pos, after, t) ==
    IF pos < Len(t) THEN RetFalse
    ELSE IF after # <<>> /\ after \notin {<<"s">>, <<"e","s">>} THEN RetFalse
    ELSE RetTrue

is_valid_match(w, t) ==
    IF Len(w) < Len(t) THEN RetFalse
    ELSE IF in_exception_tables(w, t) THEN RetFalse
    ELSE IF exact_or_plural(w, t) THEN RetTrue
    ELSE LET pos == find(w, t) IN
        IF pos < 0 THEN RetFalse
        ELSE LET after == slice_from(w, pos + Len(t)) IN
            IF pos = 0 THEN compound_at_start(after, t)
            ELSE compound_embedded(pos, after, t)

----------------------------------------------------------------------------
(* The classifier on its own: Init draws one (word, term) pair and the one *)
(* action calls is_valid_match on it.                                      *)

\* bounds of the exhaustive part of the inputs
MaxTermLen == 2
MaxWordLen == 4

\* letters of the exhaustive part: a vowel that is also the plural "e", the
\* plural "s", the diminutive "y" and one more consonant
Sigma == {"e", "s", "y", "n"}

StringsUpTo(n) == UNION {[1..k -> Sigma] : k \in 0..n}

\* (word, term) pairs of the docstring of is_valid_match and of its comments
ExamplePairs ==
    {<<<<"j","o","y">>, <<"j","o","y">>>>,
     <<<<"j","o","y","s">>, <<"j","o","y">>>>,
     <<<<"j","o","y","e","s">>, <<"j","o","y">>>>,
     <<<<"k","i","l","l","j","o","y">>, <<"j","o","y">>>>,
     <<<<"j","o","y","s","t","i","c","k">>, <<"j","o","y">>>>,
     <<<<"j","o","y","f","u","l">>, <<"j","o","y">>>>,
     <<<<"j","o","y","f","u","l","l","y">>, <<"j","o","y">>>>,
     <<<<"a","s","s">>, <<"a","s","s">>>>,
     <<<<"a","s","s","e","s">>, <<"a","s","s">>>>,
     <<<<"a","s","s","m","u","n","c","h">>, <<"a","s","s">>>>,
     <<<<"a","s","s","h","o","l","e">>, <<"a","s","s">>>>,
     <<<<"b","a","d","a","s","s">>, <<"a","s","s">>>>,
     <<<<"e","m","b","a","r","r","a","s","s","i","n","g">>, <<"a","s","s">>>>,
     <<<<"d","e","c","l","a","s","s","i","f","y">>, <<"a","s","s">>>>,
     <<<<"a","s","s","i","g","n">>, <<"a","s","s">>>>,
     <<<<"a","s","s","u","m","e">>, <<"a","s","s">>>>,
     <<<<"c","l","a","s","s">>, <<"a","s","s">>>>,
     <<<<"f","u","n">>, <<"f","u","n">>>>,
     <<<<"f","u","n","s">>, <<"f","u","n">>>>,
     <<<<"f","u","n","e","s">>, <<"f","u","n">>>>,
     <<<<"f","u","n","h","o","u","s","e">>, <<"f","u","n">>>>,
     <<<<"f","u","n","d","a","m","e","n","t","a","l">>, <<"f","u","n">>>>,
     <<<<"f","u","n","c","t","i","o","n">>, <<"f","u","n">>>>,
     <<<<"f","u","n","d","e","d">>, <<"f","u","n">>>>,
     <<<<"f","u","n","s","i","e","s">>, <<"f","u","n">>>>,
     <<<<"f","u","n","n","y">>, <<"f","u","n">>>>,
     <<<<"f","u","n","d","r","a","i","s","e">>, <<"f","u","n">>>>,
     <<<<"f","u","n","c","t","o","r">>, <<"f","u","n">>>>,
     <<<<"a","m","e","n">>, <<"a","m","e","n">>>>,
     <<<<"a","m","e","n","s">>, <<"a","m","e","n">>>>,
     <<<<"a","m","e","n","d","m","e","n","t">>, <<"a","m","e","n">>>>,
     <<<<"p","a","r","l","i","a","m","e","n","t">>, <<"a","m","e","n">>>>,
     <<<<"t","o","u","r","n","a","m","e","n","t">>, <<"a","m","e","n">>>>,
     <<<<"t","e","e","n">>, <<"t","e","e","n">>>>,
     <<<<"t","e","e","n","s">>, <<"t","e","e","n">>>>,
     <<<<"t","e","e","n","e","s">>, <<"t","e","e","n">>>>,
     <<<<"t","h","i","r","t","e","e","n">>, <<"t","e","e","n">>>>,
     <<<<"n","i","n","e","t","e","e","n">>, <<"t","e","e","n">>>>,
     <<<<"t","e","e","n","a","g","e","r">>, <<"t","e","e","n">>>>,
     <<<<"h","o","r","s","e">>, <<"h","o","r","s","e">>>>,
     <<<<"h","o","r","s","e","s">>, <<"h","o","r","s","e">>>>,
     <<<<"h","o","r","s","e","e","s">>, <<"h","o","r","s","e">>>>,
     <<<<"r","a","c","e","h","o","r","s","e">>, <<"h","o","r","s","e">>>>,
     <<<<"r","a","c","e">>, <<"r","a","c","e">>>>,
     <<<<"r","a","c","e","s">>, <<"r","a","c","e">>>>,
     <<<<"d","r","u","g">>, <<"d","r","u","g">>>>,
     <<<<"d","r","u","g","s">>, <<"d","r","u","g">>>>,
     <<<<"d","r","u","g","g","e","d">>, <<"d","r","u","g">>>>,
     <<<<"d","r","u","g","s","t","o","r","e">>, <<"d","r","u","g">>>>}

MatchInputs == (StringsUpTo(MaxWordLen) \X StringsUpTo(MaxTermLen)) \cup ExamplePairs

InitMatch ==
    /\ \E p \in MatchInputs : word = p[1] /\ term = p[2]
    /\ outcome = "pending"
    /\ EmptyStore
    /\ snowball_installed = FALSE
    /\ HAS_SCIPY = FALSE
    /\ in_flight = NoHandlers
    /\ result = NoResult
    /\ query = NoQuery

call_is_valid_match ==
    /\ outcome = "pending"
    /\ outcome' = is_valid_match(word, term)
    /\ UNCHANGED <<word, term, store_vars, result, query>>

NextMatch == call_is_valid_match

SpecMatch == InitMatch /\ [][NextMatch]_vars

----------------------------------------------------------------------------
(* Claims about is_valid_match, checked under SpecMatch.                   *)

\* what follows the term when the term starts the word: word[len(term):]
rest == slice_from(word, Len(term))

\* the term is a proper prefix of the word
proper_prefix == startswith(word, term) /\ Len(word) > Len(term)

\* C1: is_valid_match is total: every call returns True or False and none
\* raises.  The call with an empty term and a word other than "", "s", "es"
\* raises IndexError, so this fails.
C1_total == outcome # "pending" => outcome \in {RetTrue, RetFalse}

\* the results the specification lists for the terms joy, teen, fun and ass
C2_listed ==
    {<<<<"j","o","y">>, <<"j","o","y">>, RetTrue>>,
     <<<<"j","o","y","s">>, <<"j","o","y">>, RetTrue>>,
     <<<<"j","o","y","e","s">>, <<"j","o","y">>, RetTrue>>,
     <<<<"k","i","l","l","j","o","y">>, <<"j","o","y">>, RetTrue>>,
     <<<<"j","o","y","s","t","i","c","k">>, <<"j","o","y">>, RetTrue>>,
     <<<<"j","o","y","f","u","l">>, <<"j","o","y">>, RetFalse>>,
     <<<<"t","h","i","r","t","e","e","n">>, <<"t","e","e","n">>, RetFalse>>,
     <<<<"f","u","n","h","o","u","s","e">>, <<"f","u","n">>, RetTrue>>,
     <<<<"f","u","n","d","a","m","e","n","t","a","l">>, <<"f","u","n">>, RetFalse>>,
     <<<<"b","a","d","a","s","s">>, <<"a","s","s">>, RetTrue>>,
     <<<<"c","l","a","s","s">>, <<"a","s","s">>, RetFalse>>,
     <<<<"a","s","s","u","m","e">>, <<"a","s","s">>, RetFalse>>,
     <<<<"e","m","b","a","r","r","a","s","s","i","n","g">>, <<"a","s","s">>, RetFalse>>}

\* C2: is_valid_match gives every result the specification lists.
C2_listed_results ==
    \A e \in C2_listed :
        (outcome # "pending" /\ word = e[1] /\ term = e[2]) => outcome = e[3]

\* an accepted compound with the term at the end, and a rejected derivation
C2_witness ==
    /\ outcome = RetTrue
    /\ word = <<"k","i","l","l","j","o","y">>
    /\ term = <<"j","o","y">>

C4_case ==
    /\ outcome # "pending"
    /\ term # <<>>
    /\ proper_prefix
    /\ ~(<<word, term>> \in FALSE_COMPOUNDS)
    /\ ~(\E stem \in FALSE_PREFIX_STEMS(term) : startswith(word, stem))
    /\ word # term \o <<"e","s">>
    /\ ~(word = term \o <<"s">> /\ ~endswith(term, <<"e">>))
    /\ ~(rest[1] = term[Len(term)]
            /\ Tail(rest) \in DERIVATIONAL_SUFFIXES \cup DIMINUTIVE_SUFFIXES)
    /\ rest \notin DERIVATIONAL_SUFFIXES \cup DIMINUTIVE_SUFFIXES

\* C4 as stated: in that case the result is True exactly when the rest is at
\* least as long as the term and starts with a consonant.  "funsies" for
\* "fun" breaks it: the rest "sies" is "s" plus a diminutive suffix.
C4_original ==
    C4_case => (outcome = RetTrue <=> (Len(rest) >= Len(term) /\ rest[1] \notin VOWELS))

\* C4 amended: in that case the result is True exactly when the rest is at
\* least as long as the term, starts with a consonant and is not "s"
\* followed by a diminutive suffix (sy, sie, sies); otherwise it is False.
C4_amended ==
    C4_case =>
        /\ outcome \in {RetTrue, RetFalse}
        /\ outcome = RetTrue <=>
            /\ Len(rest) >= Len(term)
            /\ rest[1] \notin VOWELS
            /\ ~(rest[1] = "s" /\ Tail(rest) \in DIMINUTIVE_SUFFIXES)

\* an accepted start-of-word compound whose rest is exactly as long as the term
C4_witness == C4_case /\ outcome = RetTrue /\ Len(rest) = Len(term)

\* the position of the first occurrence of the term in the word
first_pos == find(word, term)

\* C5: when the first occurrence of the term starts at pos > 0 and the pair
\* is in no exception table, the result is True exactly when pos >= len(term)
\* and what follows the occurrence is empty, "s" or "es" (False otherwise).
C5_embedded ==
    (/\ outcome # "pending"
     /\ first_pos > 0
     /\ ~(<<word, term>> \in FALSE_COMPOUNDS)
     /\ ~(\E stem \in FALSE_PREFIX_STEMS(term) : startswith(word, stem)))
        => /\ outcome \in {RetTrue, RetFalse}
           /\ outcome = RetTrue <=>
                /\ first_pos >= Len(term)
                /\ slice_from(word, first_pos + Len(term)) \in {<<>>, <<"s">>, <<"e","s">>}

\* an accepted embedded occurrence followed by a plural suffix
C5_witness ==
    /\ outcome = RetTrue
    /\ first_pos > 0
    /\ slice_from(word, first_pos + Len(term)) = <<"e","s">>

\* C6: a pair in the false-compound table, or a word that begins with one of
\* the term's false-prefix stems, is rejected whatever the later rules give.
C6_tables_first ==
    (/\ outcome # "pending"
     /\ \/ <<word, term>> \in FALSE_COMPOUNDS
        \/ \E stem \in FALSE_PREFIX_STEMS(term) : startswith(word, stem))
        => outcome = RetFalse

\* a blocklisted pair that the compound rule on its own would accept
C6_witness ==
    /\ outcome = RetFalse
    /\ <<word, term>> \in FALSE_COMPOUNDS
    /\ compound_at_start(rest, term) = RetTrue

\* C7: the exact word and its + "es" form are always mentions.
C7_exact_and_es ==
    (outcome # "pending" /\ (word = term \/ word = term \o <<"e","s">>))
        => outcome = RetTrue

\* the + "es" form of a term that has false-prefix stems and of one ending in "e"
C7_witness ==
    /\ outcome = RetTrue
    /\ word = term \o <<"e","s">>
    /\ (FALSE_PREFIX_STEMS(term) # {} \/ endswith(term, <<"e">>))

\* C8: for a term ending in "e", the term followed by "s" is accepted.
\* "horses" for "horse" is rejected, so this fails.
C8_e_plural_accepted ==
    (outcome # "pending" /\ endswith(term, <<"e">>) /\ word = term \o <<"s">>)
        => outcome = RetTrue

\* the results the docstring of is_valid_match lists for the term amen
C9_listed ==
    {<<<<"a","m","e","n">>, <<"a","m","e","n">>, RetTrue>>,
     <<<<"a","m","e","n","s">>, <<"a","m","e","n">>, RetTrue>>,
     <<<<"a","m","e","n","d","m","e","n","t">>, <<"a","m","e","n">>, RetFalse>>,
     <<<<"p","a","r","l","i","a","m","e","n","t">>, <<"a","m","e","n">>, RetFalse>>,
     <<<<"t","o","u","r","n","a","m","e","n","t">>, <<"a","m","e","n">>, RetFalse>>}

\* C9: is_valid_match gives every result the docstring lists for "amen".
\* "amendment" is accepted (rest "dment": long enough, consonant first), so
\* this fails.
C9_amen_results ==
    \A e \in C9_listed :
        (outcome # "pending" /\ word = e[1] /\ term = e[2]) => outcome = e[3]

----------------------------------------------------------------------------
(* Text: lower-casing, stripping and tokenizing.                           *)

LOWERCASE == <<"a","b","c","d","e","f","g","h","i","j","k","l","m","n","o","p","q","r","s","t","u","v","w","x","y","z">>

UPPERCASE == <<"A","B","C","D","E","F","G","H","I","J","K","L","M","N","O","P","Q","R","S","T","U","V","W","X","Y","Z">>

\* characters str.strip() removes
WHITESPACE == {" ", "\t", "\n"}

\* one character of s.lower()
lower_char(c) ==
    IF \E i \in 1..Len(UPPERCASE) : UPPERCASE[i] = c
    THEN LOWERCASE[CHOOSE i \in 1..Len(UPPERCASE) : UPPERCASE[i] = c]
    ELSE c

\* s.lower()
lower(s) == [i \in 1..Len(s) |-> lower_char(s[i])]

\* s.strip(): s without its leading and trailing whitespace
strip(s) ==
    LET keep == {i \in 1..Len(s) : s[i] \notin WHITESPACE} IN
    IF keep = {} THEN <<>>
    ELSE SubSeq(s, CHOOSE i \in keep : \A j \in keep : i <= j,
                   CHOOSE i \in keep : \A j \in keep : i >= j)

\* [a-z]
is_letter(c) == \E i \in 1..Len(LOWERCASE) : LOWERCASE[i] = c

\* re.findall(r"[a-z]+", s): the maximal runs of lower-case letters, in order
RECURSIVE findall_letters(_)
findall_letters(s) ==
    IF s = <<>> THEN <<>>
    ELSE IF ~is_letter(s[1]) THEN findall_letters(Tail(s))
    ELSE LET stops == {i \in 1..Len(s) : ~is_letter(s[i])}
             run == IF stops = {} THEN Len(s)
                    ELSE (CHOOSE i \in stops : \A j \in stops : i <= j) - 1
         IN <<SubSeq(s, 1, run)>> \o findall_letters(slice_from(s, run))

\* what snowballstemmer's English stemmer returns for the words of the
\* transcripts below (it leaves every other word of theirs unchanged)
SNOWBALL_STEMS ==
    {<<<<"j","o","y","s">>, <<"j","o","y">>>>,
     <<<<"j","o","y","f","u","l">>, <<"j","o","y">>>>,
     <<<<"d","r","u","g","s">>, <<"d","r","u","g">>>>}

snowball_stemWord(w) ==
    IF \E p \in SNOWBALL_STEMS : p[1] = w
    THEN (CHOOSE p \in SNOWBALL_STEMS : p[1] = w)[2]
    ELSE w

\* stem_word: the stemmer when the import succeeded, the identity otherwise
stem_word(installed, w) == IF installed THEN snowball_stemWord(w) ELSE w

\* tokenize(text)
tokenize(installed, text) ==
    LET runs == findall_letters(lower(text)) IN
    [i \in 1..Len(runs) |-> stem_word(installed, runs[i])]

\* int(start // 60)
minute_of(start) == start \div 60

\* the (minute, word) pairs build_frequencies counts, in transcript order
RECURSIVE counted_tokens(_, _)
counted_tokens(installed, transcript) ==
    IF transcript = <<>> THEN <<>>
    ELSE LET seg == transcript[1]
             words == tokenize(installed, seg.text)
         IN [i \in 1..Len(words) |-> [minute |-> minute_of(seg.start), word |-> words[i]]]
                \o counted_tokens(installed, Tail(transcript))

\* build_frequencies(transcript): episode_freq as the set of (word, count)
\* items of the dict, minute_freq as the set of (minute, word, count) items
build_frequencies(installed, transcript) ==
    LET toks == counted_tokens(installed, transcript)
        at(w) == {i \in 1..Len(toks) : toks[i].word = w}
        at_minute(m, w) == {i \in 1..Len(toks) : toks[i] = [minute |-> m, word |-> w]}
    IN [episode_freq |->
            {[word |-> toks[i].word, count |-> Cardinality(at(toks[i].word))]
                : i \in 1..Len(toks)},
        minute_freq |->
            {[minute |-> toks[i].minute, word |-> toks[i].word,
              count |-> Cardinality(at_minute(toks[i].minute, toks[i].word))]
                : i \in 1..Len(toks)}]

\* transcripts of the uploads: lists of {start, text} segments
TranscriptJoy ==
    <<[start |-> 0, text |-> <<"J","o","y",","," ","j","o","y","s","!">>],
      [start |-> 65, text |-> <<"k","i","l","l","j","o","y"," ","i","s"," ","j","o","y","f","u","l"," ","j","o","y">>]>>

TranscriptDrugs ==
    <<[start |-> 30, text |-> <<"d","r","u","g","s",":"," ","2"," ","c","l","a","s","s">>]>>

TranscriptShort ==
    <<[start |-> 0, text |-> <<"J","O","Y"," ","s">>]>>

----------------------------------------------------------------------------
(* The frequency store (database.py) and the indexer (analyzer.py).        *)

\* bound: how many episodes are ever inserted
MaxEpisodes == 2

\* episode_date NULL; a date is a positive day number, a later day a larger one
NULL_DATE == 0

\* what an upload hands insert_episode: date, duration and transcript
EpisodeSources ==
    {[episode_date |-> 2, duration_seconds |-> 120, transcript |-> TranscriptJoy],
     [episode_date |-> 1, duration_seconds |-> 0, transcript |-> TranscriptDrugs],
     [episode_date |-> NULL_DATE, duration_seconds |-> 45, transcript |-> TranscriptShort]}

\* insert_episode: a new row with the next id, indexed_at NULL
insert_episode(src) ==
    /\ result.status = "none"
    /\ last_id < MaxEpisodes
    /\ last_id' = last_id + 1
    /\ episodes' = episodes \cup
            {[id |-> last_id + 1,
              episode_date |-> src.episode_date,
              duration_seconds |-> src.duration_seconds,
              transcript |-> src.transcript,
              indexed_at |-> FALSE]}
    /\ UNCHANGED <<word_frequencies, minute_frequencies, snowball_installed, HAS_SCIPY, in_flight>>
    /\ UNCHANGED <<match_vars, result, query>>

\* delete_episode: the episode's rows in all three tables, if it exists
delete_episode(episode_id) ==
    /\ result.status = "none"
    /\ IF \E e \in episodes : e.id = episode_id
       THEN /\ word_frequencies' = {r \in word_frequencies : r.episode_id # episode_id}
            /\ minute_frequencies' = {r \in minute_frequencies : r.episode_id # episode_id}
            /\ episodes' = {e \in episodes : e.id # episode_id}
       ELSE UNCHANGED <<episodes, word_frequencies, minute_frequencies>>
    /\ UNCHANGED <<last_id, snowball_installed, HAS_SCIPY, in_flight, match_vars, result, query>>

\* upsert_word_frequencies: insert, or replace the count of an existing key
upsert_word_frequencies(rows, episode_id, freq) ==
    {r \in rows : ~(r.episode_id = episode_id /\ \E f \in freq : f.word = r.word)}
        \cup {[episode_id |-> episode_id, word |-> f.word, count |-> f.count] : f \in freq}

\* upsert_minute_frequencies
upsert_minute_frequencies(rows, episode_id, minute_freq) ==
    {r \in rows : ~(r.episode_id = episode_id
                      /\ \E f \in minute_freq : f.minute = r.minute /\ f.word = r.word)}
        \cup {[episode_id |-> episode_id, minute |-> f.minute, word |-> f.word,
               count |-> f.count] : f \in minute_freq}

\* mark_indexed: UPDATE episodes SET indexed_at = now WHERE id = ?
mark_indexed(rows, episode_id) ==
    {IF e.id = episode_id THEN [e EXCEPT !.indexed_at = TRUE] ELSE e : e \in rows}

\* index_episode: builds and stores the tables of one episode, if it exists
index_episode(episode_id) ==
    /\ result.status = "none"
    /\ IF \E e \in episodes : e.id = episode_id
       THEN LET ep == CHOOSE e \in episodes : e.id = episode_id
                built == build_frequencies(snowball_installed, ep.transcript)
            IN /\ word_frequencies' =
                    upsert_word_frequencies(word_frequencies, episode_id, built.episode_freq)
               /\ minute_frequencies' =
                    upsert_minute_frequencies(minute_frequencies, episode_id, built.minute_freq)
               /\ episodes' = mark_indexed(episodes, episode_id)
       ELSE UNCHANGED <<episodes, word_frequencies, minute_frequencies>>
    /\ UNCHANGED <<last_id, snowball_installed, HAS_SCIPY, in_flight, match_vars, result, query>>

\* reset_index: drops all frequency rows and clears every indexed_at
reset_index ==
    /\ result.status = "none"
    /\ word_frequencies' = {}
    /\ minute_frequencies' = {}
    /\ episodes' = {[e EXCEPT !.indexed_at = FALSE] : e \in episodes}
    /\ UNCHANGED <<last_id, snowball_installed, HAS_SCIPY, in_flight, match_vars, result, query>>

----------------------------------------------------------------------------
(* search (search.py) over the store.                                      *)

\* the episode_ids argument: None, or a list of ids (SQL: id IN (...))
NoFilter == [given |-> FALSE, ids |-> <<>>]

in_filter(filter, id) ==
    ~filter.given \/ \E i \in 1..Len(filter.ids) : filter.ids[i] = id

\* word LIKE '%term%' for a term of letters and spaces
like_contains(w, t) == occurrences(w, t) # {}

\* get_words_containing: the word rows of indexed episodes, within the
\* filter, whose word contains the term
get_words_containing(t, filter) ==
    {r \in word_frequencies :
        /\ like_contains(r.word, lower(t))
        /\ \E e \in episodes :
            e.id = r.episode_id /\ e.indexed_at /\ in_filter(filter, e.id)}

\* the same query on the tables as they stood at some instant
get_words_containing_at(store, t, filter) ==
    {r \in store.word_frequencies :
        /\ like_contains(r.word, lower(t))
        /\ \E e \in store.episodes :
            e.id = r.episode_id /\ e.indexed_at /\ in_filter(filter, e.id)}

\* ORDER BY episode_date DESC NULLS LAST, id DESC: row a is listed before row b
listed_before(a, b) ==
    IF a.episode_date # b.episode_date
    THEN b.episode_date = NULL_DATE
            \/ (a.episode_date # NULL_DATE /\ a.episode_date > b.episode_date)
    ELSE a.id > b.id

RECURSIVE newest_first(_)
newest_first(rows) ==
    IF rows = {} THEN <<>>
    ELSE LET head == CHOOSE a \in rows : \A b \in rows \ {a} : listed_before(a, b)
         IN <<head>> \o newest_first(rows \ {head})

\* get_episode_list_indexed: the indexed episodes within the filter, newest first
get_episode_list_indexed(filter) ==
    newest_first({e \in episodes : e.indexed_at /\ in_filter(filter, e.id)})

\* the same query on the table as it stood at some instant
get_episode_list_indexed_at(store, filter) ==
    newest_first({e \in store.episodes : e.indexed_at /\ in_filter(filter, e.id)})

\* an exact fraction <<numerator, denominator>> stands for a Python float
per_minute_rate(count, duration_seconds) ==
    IF duration_seconds = 0 THEN <<0, 1>>
    ELSE <<count * 60, duration_seconds>>

rat_add(a, b) == <<a[1] * b[2] + b[1] * a[2], a[2] * b[2]>>

RECURSIVE sum_of_counts(_)
sum_of_counts(rows) ==
    IF rows = {} THEN 0
    ELSE LET r == CHOOSE x \in rows : TRUE
         IN r.count + sum_of_counts(rows \ {r})

\* episodes[:n]
first_n(eps, n) == IF n >= Len(eps) THEN eps ELSE SubSeq(eps, 1, n)

RECURSIVE sum_count(_)
sum_count(eps) == IF eps = <<>> THEN 0 ELSE eps[1].count + sum_count(Tail(eps))

RECURSIVE sum_per_minute(_)
sum_per_minute(eps) ==
    IF eps = <<>> THEN <<0, 1>>
    ELSE rat_add(eps[1].per_minute, sum_per_minute(Tail(eps)))

\* a slip: the window size as divisor, not the number of episodes averaged
rolling_avg_by_window(eps, n) ==
    LET subset == first_n(eps, n) IN
    IF subset = <<>> THEN <<>> ELSE <<sum_count(subset), n>>

\* None is <<>>; a mean is the fraction <<sum, number of episodes>>
rolling_avg(eps, n) ==
    LET subset == first_n(eps, n) IN
    IF subset = <<>> THEN <<>> ELSE <<sum_count(subset), Len(subset)>>

\* a slip: no duration filter
has_duration_always(ep) == TRUE

\* ep.duration_seconds > 0
has_duration(ep) == ep.duration_seconds > 0

rolling_avg_pm(eps, n) ==
    LET subset == SelectSeq(first_n(eps, n), has_duration)
        total == sum_per_minute(subset)
    IN IF subset = <<>> THEN <<>> ELSE <<total[1], total[2] * Len(subset)>>

\* the windows of _compute_averages
WINDOWS == <<1, 5, 20, 50, 100>>

\* lines 282-315 of search(): the SearchResult built from the rows of the two
\* queries, or the exception that ends the call
search_result_from(t, raw_rows, all_eps) ==
    LET accepted == {r \in raw_rows : is_valid_match(r.word, t) = RetTrue}
        ep_count(eid) == sum_of_counts({r \in accepted : r.episode_id = eid})
        eps == [i \in 1..Len(all_eps) |->
                    [episode_id |-> all_eps[i].id,
                     episode_date |-> all_eps[i].episode_date,
                     duration_seconds |-> all_eps[i].duration_seconds,
                     count |-> ep_count(all_eps[i].id),
                     per_minute |-> per_minute_rate(ep_count(all_eps[i].id),
                                                    all_eps[i].duration_seconds)]]
    IN IF \E r \in raw_rows : is_valid_match(r.word, t) = IndexError
       THEN [status |-> IndexError, keyword |-> t, episodes |-> <<>>,
             avg_last |-> <<>>, avg_pm_last |-> <<>>]
       ELSE [status |-> "ok", keyword |-> t, episodes |-> eps,
             avg_last |-> [i \in 1..Len(WINDOWS) |-> rolling_avg(eps, WINDOWS[i])],
             avg_pm_last |-> [i \in 1..Len(WINDOWS) |-> rolling_avg_pm(eps, WINDOWS[i])]]

\* the SearchResult search() returns when nothing else touches the store
\* between its two queries
search_result(keyword, filter) ==
    LET t == lower(strip(keyword)) IN
    search_result_from(t, get_words_containing(t, filter), get_episode_list_indexed(filter))

\* keywords a caller passes: plain, padded and upper-cased, empty
Keywords ==
    {<<"j","o","y">>, <<" ","J","O","Y"," ">>, <<"d","r","u","g">>, <<>>}

\* episode filters a caller passes
Filters ==
    {NoFilter,
     [given |-> TRUE, ids |-> <<>>],
     [given |-> TRUE, ids |-> <<1>>],
     [given |-> TRUE, ids |-> <<2, 1, 1>>]}

\* search(db, keyword, episode_ids); `query` keeps the arguments of the call
search(keyword, filter) ==
    /\ result.status = "none"
    /\ result' = [search_result(keyword, filter) EXCEPT !.keyword = lower(strip(keyword))]
    /\ query' = [keyword |-> keyword, episode_ids |-> filter]
    /\ UNCHANGED <<store_vars, match_vars>>

\* the caller is done with the SearchResult (or with the exception)
return_result ==
    /\ result.status # "none"
    /\ result' = NoResult
    /\ query' = NoQuery
    /\ UNCHANGED <<store_vars, match_vars>>

Init ==
    /\ EmptyStore
    /\ snowball_installed \in BOOLEAN
    /\ HAS_SCIPY = FALSE
    /\ in_flight = NoHandlers
    /\ result = NoResult
    /\ query = NoQuery
    /\ word = <<>>
    /\ term = <<>>
    /\ outcome = "pending"

Next ==
    \/ \E src \in EpisodeSources : insert_episode(src)
    \/ \E id \in 1..MaxEpisodes : index_episode(id)
    \/ \E id \in 1..MaxEpisodes : delete_episode(id)
    \/ reset_index
    \/ \E k \in Keywords, f \in Filters : search(k, f)
    \/ return_result

Spec == Init /\ [][Next]_vars

----------------------------------------------------------------------------
(* Claims about search, checked under Spec.                                *)

\* the episodes a search lists: indexed, and within the episode filter
C10_listed == {e \in episodes : e.indexed_at /\ in_filter(query.episode_ids, e.id)}

\* the sum of the counts of the episode's stored word rows that
\* is_valid_match accepts for the term of the search
C10_accepted_count(eid) ==
    sum_of_counts({r \in word_frequencies :
        r.episode_id = eid /\ is_valid_match(r.word, result.keyword) = RetTrue})

\* newest first: later date first, no date last, higher id first on a tie
C10_newer(a, b) ==
    \/ (a.episode_date # NULL_DATE /\ b.episode_date = NULL_DATE)
    \/ (a.episode_date # NULL_DATE /\ b.episode_date # NULL_DATE
            /\ a.episode_date > b.episode_date)
    \/ (a.episode_date = b.episode_date /\ a.episode_id > b.episode_id)

\* the returned list is complete, newest first and carries the accepted sums
C10_complete_list ==
    /\ result.status = "ok"
    /\ Len(result.episodes) = Cardinality(C10_listed)
    /\ \A e \in C10_listed :
            \E i \in 1..Len(result.episodes) : result.episodes[i].episode_id = e.id
    /\ \A i, j \in 1..Len(result.episodes) :
            i < j => C10_newer(result.episodes[i], result.episodes[j])
    /\ \A i \in 1..Len(result.episodes) :
            result.episodes[i].count = C10_accepted_count(result.episodes[i].episode_id)

\* C10: for a single term, search() returns exactly one EpisodeResult per
\* indexed episode within the filter, newest first, each with the sum of the
\* counts of its stored word rows accepted by is_valid_match, zero included.
\* A search with an empty (or all-blank) keyword over an indexed episode
\* raises IndexError inside is_valid_match instead of returning, so this fails.
C10_search_complete == result.status # "none" => C10_complete_list

\* the same for every search whose term has at least one letter: this holds
C10_nonempty_term_complete ==
    (result.status # "none" /\ result.keyword # <<>>) => C10_complete_list

\* a returned list with a zero-count episode listed before a matching one
C10_nonempty_term_witness ==
    /\ result.status = "ok"
    /\ result.keyword # <<>>
    /\ Len(result.episodes) = 2
    /\ result.episodes[1].count = 0
    /\ result.episodes[2].count > 0

----------------------------------------------------------------------------
(* Multi-keyword merge (search.py): merge_results and intersect_results.   *)

\* _compute_averages over SearchResult(keyword=label, episodes=eps)
compute_averages(label, eps) ==
    [status |-> "ok", keyword |-> label, episodes |-> eps,
     avg_last |-> [i \in 1..Len(WINDOWS) |-> rolling_avg(eps, WINDOWS[i])],
     avg_pm_last |-> [i \in 1..Len(WINDOWS) |-> rolling_avg_pm(eps, WINDOWS[i])]]

\* SearchResult(keyword=label): no episodes, every average None
empty_search_result(label) ==
    [status |-> "ok", keyword |-> label, episodes |-> <<>>,
     avg_last |-> [i \in 1..Len(WINDOWS) |-> <<>>],
     avg_pm_last |-> [i \in 1..Len(WINDOWS) |-> <<>>]]

\* EpisodeResult(...) rebuilt from ep with a new count
rebuilt_episode(ep, cnt) ==
    [ep EXCEPT !.count = cnt,
               !.per_minute = per_minute_rate(cnt, ep.duration_seconds)]

\* what the loop over res.episodes adds to combined_counts[eid]
RECURSIVE added_by(_, _)
added_by(eps, eid) ==
    IF eps = <<>> THEN 0
    ELSE (IF eps[1].episode_id = eid THEN eps[1].count ELSE 0) + added_by(Tail(eps), eid)

\* {ep.episode_id: ep.count for ep in eps}.get(eid, 0)
dict_get(eps, eid) ==
    LET at == {i \in 1..Len(eps) : eps[i].episode_id = eid} IN
    IF at = {} THEN 0
    ELSE eps[CHOOSE i \in at : \A j \in at : i >= j].count

\* a slip: combined_counts[id] = ep.count, the last result overwriting the sum
RECURSIVE combined_counts_assigned(_, _)
combined_counts_assigned(results, eid) ==
    IF results = <<>> THEN 0
    ELSE LET last == results[Len(results)] IN
         IF \E i \in 1..Len(last.episodes) : last.episodes[i].episode_id = eid
         THEN dict_get(last.episodes, eid)
         ELSE combined_counts_assigned(SubSeq(results, 1, Len(results) - 1), eid)

\* combined_counts.get(eid, 0) after the summing loops of merge_results
RECURSIVE combined_counts(_, _)
combined_counts(results, eid) ==
    IF results = <<>> THEN 0
    ELSE added_by(results[1].episodes, eid) + combined_counts(Tail(results), eid)

merge_results(label, results) ==
    IF results = <<>> THEN empty_search_result(label)
    ELSE IF Len(results) = 1 THEN compute_averages(label, results[1].episodes)
    ELSE LET first == results[1].episodes IN
         compute_averages(label,
            [i \in 1..Len(first) |->
                rebuilt_episode(first[i], combined_counts(results, first[i].episode_id))])

\* a slip: any() where the code has all()
all_terms_present_any(results, eid) ==
    \E k \in 1..Len(results) : dict_get(results[k].episodes, eid) > 0

\* all(kw.get(eid, 0) > 0 for kw in kw_counts)
all_terms_present(results, eid) ==
    \A k \in 1..Len(results) : dict_get(results[k].episodes, eid) > 0

\* sum(kw.get(eid, 0) for kw in kw_counts)
RECURSIVE sum_over_terms(_, _)
sum_over_terms(results, eid) ==
    IF results = <<>> THEN 0
    ELSE dict_get(results[1].episodes, eid) + sum_over_terms(Tail(results), eid)

intersect_results(label, results) ==
    IF results = <<>> THEN empty_search_result(label)
    ELSE IF Len(results) = 1 THEN compute_averages(label, results[1].episodes)
    ELSE LET first == results[1].episodes IN
         compute_averages(label,
            [i \in 1..Len(first) |->
                rebuilt_episode(first[i],
                    IF all_terms_present(results, first[i].episode_id)
                    THEN sum_over_terms(results, first[i].episode_id)
                    ELSE 0)])

\* bounds: the largest per-term count, and how many term results are merged
MaxCount == 1
MaxTerms == 2

\* the episode rows the per-term results are about
MergeEpisodes ==
    <<[id |-> 1, episode_date |-> 1, duration_seconds |-> 120],
      [id |-> 2, episode_date |-> 2, duration_seconds |-> 0]>>

\* the episode lists of per-term results: search() lists newest first; a store
\* changed between two searches gives lists of different episodes
EpisodeOrders == {<<>>, <<1>>, <<2>>, <<2, 1>>}

\* the SearchResults search() can return for one term over those episodes
TermResults ==
    UNION {{compute_averages(<<"t">>,
                [i \in 1..Len(order) |->
                    [episode_id |-> order[i],
                     episode_date |-> MergeEpisodes[order[i]].episode_date,
                     duration_seconds |-> MergeEpisodes[order[i]].duration_seconds,
                     count |-> c[i],
                     per_minute |-> per_minute_rate(c[i], MergeEpisodes[order[i]].duration_seconds)]])
              : c \in [1..Len(order) -> 0..MaxCount]}
           : order \in EpisodeOrders}

ResultLists == UNION {[1..n -> TermResults] : n \in 0..MaxTerms}

InitMerge ==
    /\ EmptyStore
    /\ snowball_installed = FALSE
    /\ HAS_SCIPY = FALSE
    /\ in_flight = NoHandlers
    /\ word = <<>>
    /\ term = <<>>
    /\ outcome = "pending"
    /\ result = NoResult
    /\ \E rs \in ResultLists : query = [label |-> <<"a", ",", "b">>, results |-> rs]

\* the caller's list after merge_results: with exactly one result the code
\* assigns results[0] = SearchResult(keyword=label, episodes=...) and computes
\* the averages on it, so the list then holds the returned object
results_after_merge(label, results) ==
    IF Len(results) = 1 THEN <<merge_results(label, results)>> ELSE results

\* `query.results` is the list the caller passed and still holds
call_merge_results ==
    /\ outcome = "pending"
    /\ result' = merge_results(query.label, query.results)
    /\ query' = [query EXCEPT !.results = results_after_merge(query.label, query.results)]
    /\ outcome' = "merge_results"
    /\ UNCHANGED <<word, term, store_vars>>

call_intersect_results ==
    /\ outcome = "pending"
    /\ result' = intersect_results(query.label, query.results)
    /\ outcome' = "intersect_results"
    /\ UNCHANGED <<word, term, store_vars, query>>

NextMerge == call_merge_results \/ call_intersect_results

SpecMerge == InitMerge /\ [][NextMerge]_vars

----------------------------------------------------------------------------
(* Claims about the merges, checked under SpecMerge.                       *)

\* the count a per-term result gives an episode: that of its entry, 0 without one
count_in_result(res, eid) ==
    IF \E i \in 1..Len(res.episodes) : res.episodes[i].episode_id = eid
    THEN res.episodes[CHOOSE i \in 1..Len(res.episodes) : res.episodes[i].episode_id = eid].count
    ELSE 0

\* the sum of that count over the first k results of the call
RECURSIVE total_over_results(_, _)
total_over_results(k, eid) ==
    IF k = 0 THEN 0
    ELSE count_in_result(query.results[k], eid) + total_over_results(k - 1, eid)

\* the returned list has the ids of the first result, in its order
same_ids_as_first ==
    /\ result.status = "ok"
    /\ Len(result.episodes) = Len(query.results[1].episodes)
    /\ \A i \in 1..Len(result.episodes) :
            result.episodes[i].episode_id = query.results[1].episodes[i].episode_id

\* C11: merge_results (OR) over a non-empty list of per-term results returns
\* the episodes of the first result, same ids in the same order, each with
\* the sum over all the results of that episode's count.
C11_merge_sums ==
    (outcome = "merge_results" /\ query.results # <<>>) =>
        /\ same_ids_as_first
        /\ \A i \in 1..Len(result.episodes) :
                result.episodes[i].count =
                    total_over_results(Len(query.results), result.episodes[i].episode_id)

\* two results with different counts for an episode, merged into their sum
C11_witness ==
    /\ outcome = "merge_results"
    /\ Len(query.results) = 2
    /\ \E i \in 1..Len(result.episodes) :
        /\ count_in_result(query.results[1], result.episodes[i].episode_id) > 0
        /\ count_in_result(query.results[2], result.episodes[i].episode_id) > 0
        /\ result.episodes[i].count = 2
    /\ \E i \in 1..Len(result.episodes) :
        count_in_result(query.results[2], result.episodes[i].episode_id) = 0

\* C12: intersect_results (AND): every episode's merged count is the sum of
\* the per-term counts when every term has count > 0 in that episode and 0
\* when any term has count 0; the list keeps the length and order of the
\* first result.
C12_intersect_counts ==
    (outcome = "intersect_results" /\ query.results # <<>>) =>
        /\ same_ids_as_first
        /\ \A i \in 1..Len(result.episodes) :
            LET eid == result.episodes[i].episode_id
                every == \A k \in 1..Len(query.results) :
                            count_in_result(query.results[k], eid) > 0
            IN result.episodes[i].count =
                    IF every THEN total_over_results(Len(query.results), eid) ELSE 0

\* one episode kept with its summed count and one zeroed although a term has it
C12_witness ==
    /\ outcome = "intersect_results"
    /\ Len(query.results) = 2
    /\ Len(result.episodes) = 2
    /\ result.episodes[1].count = 0
    /\ count_in_result(query.results[1], result.episodes[1].episode_id) > 0
    /\ result.episodes[2].count = 2

\* C29: merge_results and intersect_results leave their inputs unchanged:
\* after the call the caller's list of per-term results holds the same
\* SearchResults, with the same keyword, episodes and averages as before,
\* for lists of every length including one.  merge_results of a list of one
\* result stores the relabelled result in the list.
C29_inputs_unchanged == [][query'.results = query.results]_vars

----------------------------------------------------------------------------
(* search_multi_adjacent (search.py) over the store.                       *)

\* db.get_transcript(eid): class Database defines no get_transcript, so the
\* attribute lookup raises AttributeError before any segment is read
get_transcript(eid) == [raised |-> "AttributeError", segments |-> <<>>]

\* any(is_valid_match(token, t) for t in terms)
matches_any(token, terms) ==
    \E k \in 1..Len(terms) : is_valid_match(token, terms[k]) = RetTrue

\* the inner loop over the tokens of one segment: the runs it counts
RECURSIVE runs_in(_, _, _)
runs_in(tokens, terms, in_run) ==
    IF tokens = <<>> THEN 0
    ELSE LET hit == matches_any(tokens[1], terms) IN
         (IF hit /\ ~in_run THEN 1 ELSE 0) + runs_in(Tail(tokens), terms, hit)

\* the loop over the segments; in_run starts False in every segment
RECURSIVE count_runs(_, _)
count_runs(segments, terms) ==
    IF segments = <<>> THEN 0
    ELSE runs_in(findall_letters(lower(segments[1].text)), terms, FALSE)
            + count_runs(Tail(segments), terms)

\* the SearchResult search_multi_adjacent returns, or the exception that ends it
search_multi_adjacent_result(label, terms, individual_results, mode, filter) ==
    LET kw(k, eid) == dict_get(individual_results[k].episodes, eid)
        qualifying(eid) == \A k \in 1..Len(individual_results) : kw(k, eid) > 0
        any_hit(eid) == \E k \in 1..Len(individual_results) : kw(k, eid) > 0
        all_eps == get_episode_list_indexed(filter)
        skipped(eid) == (mode = "and" /\ ~qualifying(eid)) \/ ~any_hit(eid)
        count_of(eid) ==
            IF skipped(eid) THEN 0 ELSE count_runs(get_transcript(eid).segments, terms)
        eps == [i \in 1..Len(all_eps) |->
                    [episode_id |-> all_eps[i].id,
                     episode_date |-> all_eps[i].episode_date,
                     duration_seconds |-> all_eps[i].duration_seconds,
                     count |-> count_of(all_eps[i].id),
                     per_minute |-> per_minute_rate(count_of(all_eps[i].id),
                                                    all_eps[i].duration_seconds)]]
    IN IF \E i \in 1..Len(all_eps) :
            ~skipped(all_eps[i].id) /\ get_transcript(all_eps[i].id).raised # "no"
       THEN [status |-> "AttributeError", keyword |-> label, episodes |-> <<>>,
             avg_last |-> <<>>, avg_pm_last |-> <<>>]
       ELSE compute_averages(label, eps)

TranscriptJoe ==
    <<[start |-> 0, text |-> <<"J","o","e"," ","B","i","d","e","n"," ","a","n","d"," ","j","o","e">>],
      [start |-> 70, text |-> <<"b","i","d","e","n">>]>>

\* uploads of the multi-keyword searches
MultiSources ==
    {[episode_date |-> 3, duration_seconds |-> 70, transcript |-> TranscriptJoe],
     [episode_date |-> 2, duration_seconds |-> 120, transcript |-> TranscriptJoy]}

\* term lists _parse_terms hands on: several single words, none empty, in
\* the letter case of the request (_parse_terms strips, it does not lower)
MultiTerms ==
    {<<<<"j","o","e">>, <<"b","i","d","e","n">>>>,
     <<<<"J","o","e">>, <<"B","i","d","e","n">>>>,
     <<<<"j","o","y">>, <<"i","s">>>>}

Modes == {"or", "and"}

\* api_search for several single-word terms: one search() per term, then
\* search_multi_adjacent over their results
search_multi_adjacent(label, terms, mode, filter) ==
    /\ result.status = "none"
    /\ LET individual_results == [k \in 1..Len(terms) |-> search_result(terms[k], filter)]
       IN result' = search_multi_adjacent_result(label, terms, individual_results, mode, filter)
    /\ query' = [keyword |-> label, episode_ids |-> filter, terms |-> terms, mode |-> mode]
    /\ UNCHANGED <<store_vars, match_vars>>

\* what get_minute_breakdown_multi_adjacent returns: the dict minute -> runs
\* opened in the segments of that minute, as its set of items; or the
\* exception that ends the call
minute_breakdown_multi_adjacent_result(terms, episode_id) ==
    LET got == get_transcript(episode_id)
        segments == got.segments
        minutes == {minute_of(segments[j].start) : j \in 1..Len(segments)}
        in_minute(m) == SelectSeq(segments, LAMBDA seg : minute_of(seg.start) = m)
    IN IF got.raised # "no"
       THEN [status |-> "AttributeError", minute_counts |-> {}]
       ELSE [status |-> "ok",
             minute_counts |->
                {[minute |-> m, count |-> count_runs(in_minute(m), terms)] :
                    m \in {x \in minutes : count_runs(in_minute(x), terms) > 0}}]

\* api_minutes for several single-word terms in OR mode:
\* get_minute_breakdown_multi_adjacent(db, terms, eid)
get_minute_breakdown_multi_adjacent(terms, episode_id) ==
    /\ result.status = "none"
    /\ result' = minute_breakdown_multi_adjacent_result(terms, episode_id)
    /\ query' = [keyword |-> <<"m">>, episode_ids |-> [given |-> TRUE, ids |-> <<episode_id>>],
                 terms |-> terms, mode |-> "minutes"]
    /\ UNCHANGED <<store_vars, match_vars>>

NextMulti ==
    \/ \E src \in MultiSources : insert_episode(src)
    \/ \E id \in 1..MaxEpisodes : index_episode(id)
    \/ \E id \in 1..MaxEpisodes : delete_episode(id)
    \/ reset_index
    \/ \E ts \in MultiTerms, m \in Modes, f \in Filters :
            search_multi_adjacent(<<"m">>, ts, m, f)
    \/ \E ts \in MultiTerms, id \in 1..MaxEpisodes :
            get_minute_breakdown_multi_adjacent(ts, id)
    \/ return_result

SpecMulti == Init /\ [][NextMulti]_vars

----------------------------------------------------------------------------
(* Claims about search_multi_adjacent, checked under SpecMulti.            *)

\* the tokens of segment j of a transcript
segment_tokens(transcript, j) == findall_letters(lower(transcript[j].text))

\* the maximal runs of matching tokens of a transcript, each named by the
\* place of its first token: a matching token that opens its segment or
\* follows a non-matching token
maximal_runs(transcript, terms) ==
    {<<j, i>> \in (1..Len(transcript)) \X (1..20) :
        /\ i <= Len(segment_tokens(transcript, j))
        /\ matches_any(segment_tokens(transcript, j)[i], terms)
        /\ (i = 1 \/ ~matches_any(segment_tokens(transcript, j)[i - 1], terms))}

transcript_of(eid) == (CHOOSE e \in episodes : e.id = eid).transcript

\* C13: in OR mode with several single-word terms, each episode's count from
\* search_multi_adjacent is the number of maximal runs of consecutive
\* transcript tokens that each match at least one term, a run ending at any
\* non-matching token and at every segment boundary ('joe','biden' adjacent
\* counts as 1).  The scan calls db.get_transcript, which Database does not
\* define, so the call raises AttributeError as soon as one listed episode
\* mentions a term.
C13_adjacent_runs ==
    (result.status # "none" /\ query.mode = "or") =>
        /\ result.status = "ok"
        /\ \A i \in 1..Len(result.episodes) :
                result.episodes[i].count =
                    Cardinality(maximal_runs(transcript_of(result.episodes[i].episode_id),
                                             query.terms))

----------------------------------------------------------------------------
(* Rolling averages (search.py): _compute_averages over an episode list.   *)

\* bound: the longest episode list averaged
MaxListLen == 6

\* (count, duration_seconds) of the episodes in the lists; durations are a
\* few seconds so that the exact fractions stay small
EpisodeShapes ==
    {[count |-> 0, duration_seconds |-> 1],
     [count |-> 1, duration_seconds |-> 0],
     [count |-> 2, duration_seconds |-> 2],
     [count |-> 5, duration_seconds |-> 1]}

\* the EpisodeResult list search() builds from such episodes, newest first
episode_results(shapes) ==
    [i \in 1..Len(shapes) |->
        [episode_id |-> Len(shapes) + 1 - i,
         episode_date |-> Len(shapes) + 1 - i,
         duration_seconds |-> shapes[i].duration_seconds,
         count |-> shapes[i].count,
         per_minute |-> per_minute_rate(shapes[i].count, shapes[i].duration_seconds)]]

\* counts 10, 20, ..., 60, newest first
ExampleCounts ==
    <<[count |-> 10, duration_seconds |-> 1], [count |-> 20, duration_seconds |-> 1],
      [count |-> 30, duration_seconds |-> 1], [count |-> 40, duration_seconds |-> 1],
      [count |-> 50, duration_seconds |-> 1], [count |-> 60, duration_seconds |-> 1]>>

EpisodeLists ==
    {episode_results(sh) : sh \in UNION {[1..n -> EpisodeShapes] : n \in 0..MaxListLen}}
        \cup {episode_results(ExampleCounts)}

InitAverages ==
    /\ EmptyStore
    /\ snowball_installed = FALSE
    /\ HAS_SCIPY = FALSE
    /\ in_flight = NoHandlers
    /\ word = <<>>
    /\ term = <<>>
    /\ outcome = "pending"
    /\ result = NoResult
    /\ \E eps \in EpisodeLists : query = [keyword |-> <<"k">>, episodes |-> eps]

call_compute_averages ==
    /\ outcome = "pending"
    /\ result' = compute_averages(query.keyword, query.episodes)
    /\ outcome' = "compute_averages"
    /\ UNCHANGED <<word, term, store_vars, query>>

NextAverages == call_compute_averages

SpecAverages == InitAverages /\ [][NextAverages]_vars

----------------------------------------------------------------------------
(* Claims about the rolling averages, checked under SpecAverages.          *)

\* min(k, N)
window_len(k) == IF k < Len(query.episodes) THEN k ELSE Len(query.episodes)

\* the sum of the counts of the first m episodes
count_total(m) ==
    LET f[i \in 0..m] == IF i = 0 THEN 0 ELSE f[i - 1] + query.episodes[i].count
    IN f[m]

\* fractions a = <<p, q>> and b = <<r, s>> are the same number
same_number(a, b) == a[1] * b[2] = b[1] * a[2]

\* C14: for every window k in {1, 5, 20, 50, 100}, the count rolling average is
\* the arithmetic mean of the counts of the first min(k, N) episodes of the
\* newest-first list, and it is undefined (None) exactly when the list is empty.
C14_count_average ==
    outcome = "compute_averages" =>
        \A w \in 1..Len(WINDOWS) :
            /\ (result.avg_last[w] = <<>>) <=> (query.episodes = <<>>)
            /\ query.episodes # <<>> =>
                    same_number(result.avg_last[w],
                                <<count_total(window_len(WINDOWS[w])), window_len(WINDOWS[w])>>)

\* window 5 over 10, 20, 30, 40, 50, 60 gives 30, window 20 gives 35
C14_witness ==
    /\ outcome = "compute_averages"
    /\ query.episodes = episode_results(ExampleCounts)
    /\ same_number(result.avg_last[2], <<30, 1>>)
    /\ same_number(result.avg_last[3], <<35, 1>>)

\* the sum of the per-minute rates of those of the first m episodes that
\* satisfy keep
rate_total(m, keep(_)) ==
    LET f[i \in 0..m] ==
            IF i = 0 THEN <<0, 1>>
            ELSE IF keep(query.episodes[i]) THEN rat_add(f[i - 1], query.episodes[i].per_minute)
            ELSE f[i - 1]
    IN f[m]

any_episode(ep) == TRUE

timed_episode(ep) == ep.duration_seconds > 0

\* how many of the first m episodes have a duration
timed_in(m) == Cardinality({i \in 1..m : timed_episode(query.episodes[i])})

\* C15 as stated: for every window the per-minute rolling average is the mean
\* of the per-minute rates of the first min(k, N) episodes, the episodes the
\* count average of that window uses.
C15_original ==
    outcome = "compute_averages" =>
        \A w \in 1..Len(WINDOWS) :
            LET m == window_len(WINDOWS[w]) IN
            query.episodes # <<>> =>
                /\ result.avg_pm_last[w] # <<>>
                /\ LET total == rate_total(m, any_episode) IN
                   same_number(result.avg_pm_last[w], <<total[1], total[2] * m>>)

\* C15 amended: for every window the per-minute rolling average is the mean
\* of the per-minute rates of those of the first min(k, N) episodes whose
\* duration is positive, and undefined (None) when none of them has one.
C15_amended ==
    outcome = "compute_averages" =>
        \A w \in 1..Len(WINDOWS) :
            LET m == window_len(WINDOWS[w]) IN
            /\ (result.avg_pm_last[w] = <<>>) <=> (timed_in(m) = 0)
            /\ result.avg_pm_last[w] # <<>> =>
                    LET total == rate_total(m, timed_episode) IN
                    same_number(result.avg_pm_last[w], <<total[1], total[2] * timed_in(m)>>)

\* a window of 5 over 6 episodes, one of the 5 without a duration: the rate
\* average is taken over 4 episodes, the count average over 5
C15_witness ==
    /\ outcome = "compute_averages"
    /\ Len(query.episodes) = 6
    /\ timed_in(5) = 4
    /\ result.avg_pm_last[2] # <<>>
    /\ result.avg_last[2][2] = 5
    /\ result.avg_pm_last[2][1] > 0

----------------------------------------------------------------------------
(* tokenize (analyzer.py) as a function of its text and of the build.      *)

\* bound: how many word-and-separator units a text is made of
MaxUnits == 2

\* words of the texts: the docstring's "drugs" and "DMT", and two more
TextWords ==
    {<<"D","r","u","g","s">>, <<"D","M","T">>, <<"j","o","y">>, <<"s">>}

\* what separates two words: a blank, a digit, a possessive apostrophe
TextSeparators == {<<" ">>, <<"2">>, <<"'">>}

TextUnits == {w \o sep : w \in TextWords, sep \in TextSeparators}

RECURSIVE concat(_)
concat(parts) == IF parts = <<>> THEN <<>> ELSE parts[1] \o concat(Tail(parts))

\* texts handed to tokenize: units, then possibly a last word
Texts ==
    {concat(us) \o tail :
        us \in UNION {[1..n -> TextUnits] : n \in 0..MaxUnits},
        tail \in TextWords \cup {<<>>}}

InitTokenize ==
    /\ EmptyStore
    /\ snowball_installed \in BOOLEAN
    /\ HAS_SCIPY = FALSE
    /\ in_flight = NoHandlers
    /\ word = <<>>
    /\ term = <<>>
    /\ outcome = "pending"
    /\ result = NoResult
    /\ \E text \in Texts : query = [text |-> text]

call_tokenize ==
    /\ outcome = "pending"
    /\ result' = [status |-> "ok", tokens |-> tokenize(snowball_installed, query.text)]
    /\ outcome' = "tokenize"
    /\ UNCHANGED <<word, term, store_vars, query>>

NextTokenize == call_tokenize

SpecTokenize == InitTokenize /\ [][NextTokenize]_vars

----------------------------------------------------------------------------
(* Claims about tokenize, checked under SpecTokenize.                      *)

\* the lower-cased text of the call
lowered_text == lower(query.text)

\* the maximal runs of ASCII letters of the lower-cased text, as <<first, last>>
letter_runs ==
    {r \in (1..Len(lowered_text)) \X (1..Len(lowered_text)) :
        /\ r[1] <= r[2]
        /\ \A i \in r[1]..r[2] : is_letter(lowered_text[i])
        /\ (r[1] = 1 \/ ~is_letter(lowered_text[r[1] - 1]))
        /\ (r[2] = Len(lowered_text) \/ ~is_letter(lowered_text[r[2] + 1]))}

\* the place of a run among the runs, in text order
run_rank(r) == Cardinality({q \in letter_runs : q[1] <= r[1]})

\* every token is the letter run of its rank, unchanged
tokens_are_letter_runs ==
    /\ Len(result.tokens) = Cardinality(letter_runs)
    /\ \A r \in letter_runs :
            result.tokens[run_rank(r)] = SubSeq(lowered_text, r[1], r[2])

\* C16: tokenize(text) yields, in order, exactly one token per maximal run of
\* ASCII letters of the lower-cased text, each token being that run itself,
\* unchanged (so the index holds lowercase, un-stemmed words).  In a build
\* where snowballstemmer is installed every token is stemmed: "drugs" is
\* returned, and indexed, as "drug".
C16_tokens_unstemmed == outcome = "tokenize" => tokens_are_letter_runs

\* the same in a build without snowballstemmer: this holds
C16_without_stemmer ==
    (outcome = "tokenize" /\ ~snowball_installed) => tokens_are_letter_runs

\* such a build tokenizing a text of three runs, upper-case letters among them
C16_without_stemmer_witness ==
    /\ outcome = "tokenize"
    /\ ~snowball_installed
    /\ Len(result.tokens) = 3
    /\ result.tokens[1] = <<"d","r","u","g","s">>
    /\ query.text[1] = "D"

----------------------------------------------------------------------------
(* Fair value (fair_value.py).  A Python float is modelled by the exact    *)
(* fraction <<numerator, denominator>> in lowest terms, denominator > 0;   *)
(* None is <<>>.                                                           *)

RECURSIVE gcd(_, _)
gcd(a, b) == IF b = 0 THEN a ELSE gcd(b, a % b)

\* the float n / d
float(n, d) ==
    LET sn == IF d < 0 THEN 0 - n ELSE n
        sd == IF d < 0 THEN 0 - d ELSE d
        g == gcd(IF sn < 0 THEN 0 - sn ELSE sn, sd)
    IN <<sn \div g, sd \div g>>

fadd(a, b) == float(a[1] * b[2] + b[1] * a[2], a[2] * b[2])
fsub(a, b) == float(a[1] * b[2] - b[1] * a[2], a[2] * b[2])
fmul(a, b) == float(a[1] * b[1], a[2] * b[2])
fdiv(a, b) == float(a[1] * b[2], a[2] * b[1])
flt(a, b) == a[1] * b[2] < b[1] * a[2]
fle(a, b) == a[1] * b[2] <= b[1] * a[2]
fmax(a, b) == IF flt(a, b) THEN b ELSE a
fmin(a, b) == IF flt(b, a) THEN b ELSE a

Zero == <<0, 1>>
One == <<1, 1>>

\* round(x): to the nearest integer, a tie to the even one
round_half_even(x) ==
    LET q == x[1] \div x[2]
        r == x[1] % x[2]
    IN IF 2 * r < x[2] THEN q
       ELSE IF 2 * r > x[2] THEN q + 1
       ELSE IF q % 2 = 0 THEN q ELSE q + 1

\* f[lo] + ... + f[hi]; exact fractions add up to the same value in any
\* order, and halving the range keeps the evaluation shallow
RECURSIVE range_sum(_, _, _)
range_sum(f, lo, hi) ==
    IF lo > hi THEN Zero
    ELSE IF lo = hi THEN f[lo]
    ELSE LET mid == (lo + hi) \div 2
         IN fadd(range_sum(f, lo, mid), range_sum(f, mid + 1, hi))

\* the running sums f[lo], f[lo] + f[lo+1], ..., up to f[hi], as a sequence
RECURSIVE running_sums(_, _, _)
running_sums(f, lo, hi) ==
    IF lo > hi THEN <<>>
    ELSE IF lo = hi THEN <<f[lo]>>
    ELSE LET mid == (lo + hi) \div 2
             left == running_sums(f, lo, mid)
             right == running_sums(f, mid + 1, hi)
         IN left \o [i \in 1..Len(right) |-> fadd(left[Len(left)], right[i])]

\* sum(xs) for a list of floats
fsum(xs) == range_sum(xs, 1, Len(xs))

\* sorted(xs) for a list of ints
RECURSIVE sorted(_)
sorted(xs) ==
    IF xs = <<>> THEN <<>>
    ELSE LET i == CHOOSE k \in 1..Len(xs) : \A j \in 1..Len(xs) : xs[k] <= xs[j]
         IN <<xs[i]>> \o sorted([j \in 1..(Len(xs) - 1) |-> IF j < i THEN xs[j] ELSE xs[j + 1]])

\* counts above this are grouped into the last bucket
MAX_BUCKET == 25

Buckets == 0..MAX_BUCKET

\* a slip: the last bucket left empty instead of absorbing the upper tail
tail_bucket_empty(tail) == Zero

\* pmf[MAX_BUCKET] = max(0.0, 1.0 - tail)
tail_bucket(tail) == fmax(Zero, fsub(One, tail))

\* the loop `for k in range(MAX_BUCKET): pmf[k] = point(k); tail += pmf[k]`
\* followed by the last bucket, for point values given as a function of k
truncated_pmf(point) ==
    LET tail == range_sum(point, 0, MAX_BUCKET - 1) IN
    [k \in Buckets |-> IF k < MAX_BUCKET THEN point[k] ELSE tail_bucket(tail)]

\* _sf_from_pmf: sf[k] from the cumulative sum of the buckets below k, the
\* buckets taken in ascending order
sf_from_pmf(pmf) ==
    LET cumulative == running_sums(pmf, 0, MAX_BUCKET) IN
    [k \in Buckets |->
        fmax(Zero, fmin(One, fsub(One, IF k = 0 THEN Zero ELSE cumulative[k])))]

\* _empirical_pmf: every count adds 1/n to the bucket min(c, MAX_BUCKET)
empirical_pmf(counts, n) ==
    [k \in Buckets |->
        float(Cardinality({i \in 1..Len(counts) :
                            (IF counts[i] < MAX_BUCKET THEN counts[i] ELSE MAX_BUCKET) = k}), n)]

\* The values of math.exp and scipy.stats.nbinom.pmf are not computed here:
\* a call's numerics gives _poisson_pmf(lam, k) and stats.nbinom.pmf(k, r, p)
\* for k < MAX_BUCKET as non-negative floats whose sum is at most 1.
point_values(tenths) ==
    [k \in 0..(MAX_BUCKET - 1) |->
        IF k < Len(tenths) THEN float(tenths[k + 1], 10) ELSE Zero]

Numerics ==
    {[poisson |-> point_values(<<6, 3, 1>>), nbinom |-> point_values(<<5, 2, 1, 1>>)],
     [poisson |-> point_values(<<1, 2, 2, 1>>), nbinom |-> point_values(<<1, 1, 1>>)],
     [poisson |-> point_values(<<9, 1>>), nbinom |-> point_values(<<8, 1, 1>>)]}

\* the lam of a sample whose mean is not positive: 1e-9
EPSILON_LAM == float(1, 1000000000)

\* _poisson_pmf(lam, k) for every k < MAX_BUCKET; for lam = 1e-9 math.exp(-lam)
\* is 1 to nine decimal places and every other value is below 1e-9, taken
\* here as 1 and 0
poisson_points(lam, numerics) ==
    [k \in 0..(MAX_BUCKET - 1) |->
        IF fle(lam, Zero) \/ lam = EPSILON_LAM THEN (IF k = 0 THEN One ELSE Zero)
        ELSE numerics.poisson[k]]

poisson_pmf_dict(lam, numerics) == truncated_pmf(poisson_points(lam, numerics))

\* the fit succeeds: r > 0 and 0 < p < 1 for p = mean / variance, r = mean * p / (1 - p)
nb_parameters_valid(mean, variance) ==
    /\ flt(mean, variance)
    /\ flt(Zero, variance)
    /\ LET p == fdiv(mean, variance)
           r == fdiv(fmul(mean, p), fsub(One, p))
       IN flt(Zero, r) /\ flt(Zero, p) /\ flt(p, One)

\* a slip: the fit refused unless the variance is more than twice the mean
negbin_pmf_dict_twice(mean, variance, numerics) ==
    IF ~HAS_SCIPY THEN <<>>
    ELSE IF fle(variance, fmul(float(2, 1), mean)) THEN <<>>
    ELSE IF ~nb_parameters_valid(mean, variance) THEN <<>>
    ELSE truncated_pmf(numerics.nbinom)

\* _negbin_pmf_dict: None (<<>>) without scipy, for variance <= mean, or
\* for parameters out of range
negbin_pmf_dict(mean, variance, numerics) ==
    IF ~HAS_SCIPY THEN <<>>
    ELSE IF fle(variance, mean) THEN <<>>
    ELSE IF ~nb_parameters_valid(mean, variance) THEN <<>>
    ELSE truncated_pmf(numerics.nbinom)

\* _zinb_pmf_dict: the pair (pmf, pi estimate), (None, None) on failure
zinb_pmf_dict(mean, variance, zero_fraction, numerics) ==
    IF ~HAS_SCIPY \/ fle(variance, mean) \/ fle(mean, Zero) THEN <<<<>>, <<>>>>
    ELSE IF ~nb_parameters_valid(mean, variance) THEN <<<<>>, <<>>>>
    ELSE LET p_0_nb == numerics.nbinom[0] IN
         IF fle(zero_fraction, p_0_nb) THEN <<<<>>, <<>>>>
         ELSE LET raw == fdiv(fsub(zero_fraction, p_0_nb), fsub(One, p_0_nb))
                  pi == fmax(Zero, fmin(raw, float(999, 1000)))
                  mixed == [k \in 0..(MAX_BUCKET - 1) |->
                                fadd(IF k = 0 THEN pi ELSE Zero,
                                     fmul(fsub(One, pi), numerics.nbinom[k]))]
              IN <<truncated_pmf(mixed),
                   float(round_half_even(fmul(pi, float(10000, 1))), 10000)>>

\* the table's survival function, None for no table
sf_or_none(pmf) == IF pmf = <<>> THEN <<>> ELSE sf_from_pmf(pmf)

\* the return for n == 0: a uniform table in place of the Poisson and the
\* empirical one; zero_inflated and the ZINB fields keep their defaults
uniform_result(keyword, ref_minutes) ==
    LET uniform == float(1, MAX_BUCKET + 1)
        uniform_pmf == [i \in Buckets |-> uniform]
        uniform_sf == [i \in Buckets |-> fsub(One, fmul(float(i, 1), uniform))]
    IN [keyword |-> keyword, lambda_estimate |-> Zero, lookback_episodes |-> 0,
        mean |-> Zero, variance |-> Zero, overdispersed |-> FALSE,
        reference_minutes |-> ref_minutes,
        poisson_pmf |-> uniform_pmf, poisson_sf |-> uniform_sf,
        empirical_pmf |-> uniform_pmf, empirical_sf |-> uniform_sf,
        negbin_pmf |-> <<>>, negbin_sf |-> <<>>,
        zero_inflated |-> FALSE, pi_estimate |-> <<>>,
        zinb_pmf |-> <<>>, zinb_sf |-> <<>>]

\* a slip: the excess over the predicted P(X=0) alone, without the 30% test
zero_inflation_by_excess(zero_fraction, expected_p0) ==
    flt(fadd(expected_p0, float(15, 100)), zero_fraction)

\* a slip: the 30% test alone, without the excess over the predicted P(X=0)
zero_inflation_by_fraction(zero_fraction, expected_p0) ==
    fle(float(3, 10), zero_fraction)

\* zero_fraction >= 0.3 and zero_fraction > expected_p0 + 0.15
zero_inflation_detected(zero_fraction, expected_p0) ==
    /\ fle(float(3, 10), zero_fraction)
    /\ flt(fadd(expected_p0, float(15, 100)), zero_fraction)

\* lines 129-195: the estimate from n >= 1 observations
fitted_result(keyword, eff_counts, int_counts, n, ref_minutes, numerics) ==
    LET mean == fdiv(fsum(eff_counts), float(n, 1))
        squares == [i \in 1..n |-> fmul(fsub(eff_counts[i], mean), fsub(eff_counts[i], mean))]
        variance == fdiv(fsum(squares), float(IF n - 1 > 1 THEN n - 1 ELSE 1, 1))
        lam == IF flt(Zero, mean) THEN mean ELSE EPSILON_LAM
        overdispersed == flt(fmul(mean, float(12, 10)), variance)
        poisson_pmf == poisson_pmf_dict(lam, numerics)
        empirical == empirical_pmf(int_counts, n)
        negbin_pmf ==
            IF HAS_SCIPY /\ overdispersed /\ flt(Zero, variance) /\ flt(Zero, mean)
            THEN negbin_pmf_dict(mean, variance, numerics) ELSE <<>>
        zero_fraction == float(Cardinality({i \in 1..n : int_counts[i] = 0}), n)
        exp_neg_lam == poisson_points(lam, numerics)[0]
        expected_p0 ==
            IF HAS_SCIPY /\ overdispersed /\ flt(mean, variance) /\ flt(Zero, mean)
                /\ nb_parameters_valid(mean, variance)
            THEN numerics.nbinom[0] ELSE exp_neg_lam
        zero_inflated == zero_inflation_detected(zero_fraction, expected_p0)
        zinb ==
            IF zero_inflated /\ HAS_SCIPY /\ overdispersed /\ flt(Zero, variance) /\ flt(Zero, mean)
            THEN zinb_pmf_dict(mean, variance, zero_fraction, numerics) ELSE <<<<>>, <<>>>>
    IN [keyword |-> keyword, lambda_estimate |-> lam, lookback_episodes |-> n,
        mean |-> mean, variance |-> variance, overdispersed |-> overdispersed,
        reference_minutes |-> ref_minutes,
        poisson_pmf |-> poisson_pmf, poisson_sf |-> sf_from_pmf(poisson_pmf),
        empirical_pmf |-> empirical, empirical_sf |-> sf_from_pmf(empirical),
        negbin_pmf |-> negbin_pmf, negbin_sf |-> sf_or_none(negbin_pmf),
        zero_inflated |-> zero_inflated, pi_estimate |-> zinb[2],
        zinb_pmf |-> zinb[1], zinb_sf |-> sf_or_none(zinb[1])]

\* a slip: `if lookback:` around the slice, a lookback of 0 taking every episode
episodes_up_to_unless_zero(eps, lookback) ==
    IF lookback = 0 THEN eps
    ELSE IF lookback > 0 THEN first_n(eps, lookback)
    ELSE first_n(eps, IF Len(eps) + lookback > 0 THEN Len(eps) + lookback ELSE 0)

\* result.episodes[:lookback]; a negative lookback drops that many from the end
episodes_up_to(eps, lookback) ==
    IF lookback >= 0 THEN first_n(eps, lookback)
    ELSE first_n(eps, IF Len(eps) + lookback > 0 THEN Len(eps) + lookback ELSE 0)

\* a slip: every lookback episode kept, whatever its duration
eps_with_dur_unfiltered(all_eps) == all_eps

\* [ep for ep in all_eps if ep.duration_seconds > 0]
eps_with_dur(all_eps) == SelectSeq(all_eps, has_duration)

calculate_fair_value(res, lookback, numerics) ==
    LET all_eps == episodes_up_to(res.episodes, lookback)
        with_dur == eps_with_dur(all_eps)
        normalized == with_dur # <<>>
        dur_sorted == sorted([i \in 1..Len(with_dur) |-> with_dur[i].duration_seconds])
        ref_minutes ==
            IF normalized THEN float(dur_sorted[(Len(dur_sorted) \div 2) + 1], 60) ELSE <<>>
        eff_counts ==
            IF normalized
            THEN [i \in 1..Len(with_dur) |->
                    fmul(float(with_dur[i].per_minute[1], with_dur[i].per_minute[2]), ref_minutes)]
            ELSE [i \in 1..Len(all_eps) |-> float(all_eps[i].count, 1)]
        int_counts ==
            IF normalized
            THEN [i \in 1..Len(with_dur) |->
                    IF round_half_even(eff_counts[i]) > 0 THEN round_half_even(eff_counts[i]) ELSE 0]
            ELSE [i \in 1..Len(all_eps) |-> all_eps[i].count]
        n == Len(eff_counts)
    IN IF n = 0 THEN uniform_result(res.keyword, ref_minutes)
       ELSE fitted_result(res.keyword, eff_counts, int_counts, n, ref_minutes, numerics)

\* a slip: the empirical table preferred to the Negative-Binomial one
recommended_pmf_empirical_first(fv) ==
    IF fv.zero_inflated /\ fv.zinb_pmf # <<>> THEN fv.zinb_pmf
    ELSE IF fv.lookback_episodes >= 10 THEN fv.empirical_pmf
    ELSE IF fv.overdispersed /\ fv.negbin_pmf # <<>> THEN fv.negbin_pmf
    ELSE fv.poisson_pmf

recommended_pmf(fv) ==
    IF fv.zero_inflated /\ fv.zinb_pmf # <<>> THEN fv.zinb_pmf
    ELSE IF fv.overdispersed /\ fv.negbin_pmf # <<>> THEN fv.negbin_pmf
    ELSE IF fv.lookback_episodes >= 10 THEN fv.empirical_pmf
    ELSE fv.poisson_pmf

recommended_sf(fv) == sf_from_pmf(recommended_pmf(fv))

\* bounds: how many episodes with mentions and how many without a result holds
MaxHits == 5
MaxZeros == 5

\* the count of an episode with mentions: small, or beyond MAX_BUCKET
HitCounts == {1, 30}

\* durations (seconds) of the episodes with and without mentions: none known,
\* all equal, all known and different, known for the first kind only
DurationPairs == {<<0, 0>>, <<60, 60>>, <<120, 60>>, <<60, 0>>}

\* nh episodes of count h and nz episodes of count 0, one kind after the other
mixed_shapes(nh, nz, h, durs, hits_first) ==
    LET hit == [count |-> h, duration_seconds |-> durs[1]]
        zero == [count |-> 0, duration_seconds |-> durs[2]]
    IN [i \in 1..(nh + nz) |->
            IF hits_first THEN (IF i <= nh THEN hit ELSE zero)
            ELSE (IF i <= nz THEN zero ELSE hit)]

\* the SearchResults handed to calculate_fair_value (keyword and episodes)
FairValueInputs ==
    {[keyword |-> <<"k">>, episodes |-> episode_results(mixed_shapes(nh, nz, h, durs, first))] :
        nh \in 0..MaxHits, nz \in 0..MaxZeros, h \in HitCounts,
        durs \in DurationPairs, first \in BOOLEAN}

\* two samples without durations: twenty episodes, overdispersed and half of
\* them without a mention; ten episodes, variance equal to the mean and three
\* of them without a mention
CountExamples ==
    {<<3, 3, 3, 3, 0, 0, 0, 0, 0, 0, 3, 3, 3, 3, 3, 3, 0, 0, 0, 0>>,
     <<3, 3, 3, 3, 3, 3, 3, 0, 0, 0>>}

ExampleInputs ==
    {[keyword |-> <<"k">>,
      episodes |-> episode_results([i \in 1..Len(counts) |->
                                        [count |-> counts[i], duration_seconds |-> 0]])] :
        counts \in CountExamples}

\* lookback arguments: the server accepts any integer
Lookbacks == {-1, 0, 3, 10, 20}

InitFairValue ==
    /\ EmptyStore
    /\ snowball_installed = FALSE
    /\ HAS_SCIPY \in BOOLEAN
    /\ in_flight = NoHandlers
    /\ word = <<>>
    /\ term = <<>>
    /\ outcome = "pending"
    /\ result = NoResult
    /\ \E res \in FairValueInputs \cup ExampleInputs, lookback \in Lookbacks :
            query = [result |-> res, lookback |-> lookback]

\* fv = calculate_fair_value(result, lookback); rec_pmf = recommended_pmf(fv);
\* rec_sf = recommended_sf(fv)
call_calculate_fair_value ==
    /\ outcome = "pending"
    /\ \E numerics \in Numerics :
        LET fv == calculate_fair_value(query.result, query.lookback, numerics) IN
        result' = [status |-> "ok", fv |-> fv,
                   rec_pmf |-> recommended_pmf(fv), rec_sf |-> recommended_sf(fv)]
    /\ outcome' = "calculate_fair_value"
    /\ UNCHANGED <<word, term, store_vars, query>>

NextFairValue == call_calculate_fair_value

SpecFairValue == InitFairValue /\ [][NextFairValue]_vars

----------------------------------------------------------------------------
(* Claims about the fair-value estimate, checked under SpecFairValue.      *)

estimated == outcome = "calculate_fair_value"

\* sf is the survival function of pmf: 1 minus the mass below k, within [0, 1]
survival_of(sf, pmf) ==
    LET below == running_sums(pmf, 0, MAX_BUCKET) IN
    \A k \in Buckets :
        sf[k] = fmax(Zero, fmin(One, fsub(One, IF k = 0 THEN Zero ELSE below[k])))

\* C17: recommended_pmf returns the Zero-Inflated-NB table when it is
\* available; otherwise the Negative-Binomial table when the data is
\* overdispersed and its fit succeeded; otherwise the empirical table when
\* lookback_episodes is at least 10; otherwise the Poisson table; and
\* recommended_sf is the survival function of that same table.
C17_model_priority ==
    estimated =>
        LET fv == result.fv
            chosen ==
                IF fv.zinb_pmf # <<>> THEN fv.zinb_pmf
                ELSE IF fv.overdispersed /\ fv.negbin_pmf # <<>> THEN fv.negbin_pmf
                ELSE IF fv.lookback_episodes >= 10 THEN fv.empirical_pmf
                ELSE fv.poisson_pmf
        IN /\ result.rec_pmf = chosen
           /\ survival_of(result.rec_sf, chosen)

\* ten observations, overdispersed, no ZINB table: the Negative-Binomial
\* table is chosen although the empirical one is eligible and differs
C17_witness ==
    /\ estimated
    /\ result.fv.lookback_episodes >= 10
    /\ result.fv.zinb_pmf = <<>>
    /\ result.fv.negbin_pmf # <<>>
    /\ result.rec_pmf = result.fv.negbin_pmf
    /\ result.rec_pmf # result.fv.empirical_pmf

\* a probability table over the buckets with its survival function
is_distribution(pmf, sf) ==
    /\ DOMAIN pmf = Buckets
    /\ \A k \in Buckets : fle(Zero, pmf[k])
    /\ range_sum(pmf, 0, MAX_BUCKET) = One
    /\ sf[0] = One
    /\ survival_of(sf, pmf)
    /\ \A k \in 0..(MAX_BUCKET - 1) : fle(sf[k + 1], sf[k])

\* C18: every table the estimator produces (Poisson, empirical,
\* Negative-Binomial, Zero-Inflated-NB, uniform fallback, recommended) has one
\* non-negative entry per bucket 0..MAX_BUCKET summing to 1, and its survival
\* function has SF(0) = 1, SF(k) = 1 - sum PMF(0..k-1) within [0, 1], and
\* SF(k+1) <= SF(k).
C18_tables_are_distributions ==
    estimated =>
        LET fv == result.fv IN
        /\ is_distribution(fv.poisson_pmf, fv.poisson_sf)
        /\ is_distribution(fv.empirical_pmf, fv.empirical_sf)
        /\ fv.negbin_pmf # <<>> => is_distribution(fv.negbin_pmf, fv.negbin_sf)
        /\ fv.zinb_pmf # <<>> => is_distribution(fv.zinb_pmf, fv.zinb_sf)
        /\ (fv.negbin_pmf = <<>>) = (fv.negbin_sf = <<>>)
        /\ (fv.zinb_pmf = <<>>) = (fv.zinb_sf = <<>>)
        /\ is_distribution(result.rec_pmf, result.rec_sf)

\* all four fitted tables present, with mass in the last bucket of the
\* empirical, the Negative-Binomial and the ZINB one
C18_witness ==
    /\ estimated
    /\ result.fv.negbin_pmf # <<>>
    /\ result.fv.zinb_pmf # <<>>
    /\ flt(Zero, result.fv.zinb_pmf[MAX_BUCKET])
    /\ flt(Zero, result.fv.negbin_pmf[MAX_BUCKET])
    /\ flt(Zero, result.fv.empirical_pmf[MAX_BUCKET])
    /\ flt(Zero, result.fv.zinb_pmf[0])

\* C19: when the lookback holds zero episodes (empty result or lookback 0),
\* calculate_fair_value returns, with lookback_episodes = 0 and a uniform
\* distribution, every bucket 0..MAX_BUCKET at 1/(MAX_BUCKET+1), which is
\* also the table recommended_pmf returns.
C19_uniform_fallback ==
    (estimated /\ (query.result.episodes = <<>> \/ query.lookback = 0)) =>
        /\ result.status = "ok"
        /\ result.fv.lookback_episodes = 0
        /\ \A k \in Buckets :
            /\ result.fv.poisson_pmf[k] = float(1, MAX_BUCKET + 1)
            /\ result.fv.empirical_pmf[k] = float(1, MAX_BUCKET + 1)
            /\ result.rec_pmf[k] = float(1, MAX_BUCKET + 1)
        /\ DOMAIN result.rec_pmf = Buckets

\* a lookback of 0 over a result of ten episodes
C19_witness ==
    /\ estimated
    /\ query.lookback = 0
    /\ Len(query.result.episodes) = 10
    /\ result.fv.lookback_episodes = 0
    /\ result.rec_pmf[MAX_BUCKET] = float(1, 26)

\* the episodes of the call's result and its lookback
fv_episodes == query.result.episodes

\* min(lookback, N): how many most recent episodes the lookback holds
lookback_len ==
    IF query.lookback < Len(fv_episodes) THEN query.lookback ELSE Len(fv_episodes)

\* the places, among the lookback episodes, of the episodes in S's kind
lookback_places == 1..lookback_len

timed_places == {i \in lookback_places : fv_episodes[i].duration_seconds > 0}

\* the upper median of the durations of the episodes at the places in S
median_duration(S) ==
    CHOOSE d \in {fv_episodes[i].duration_seconds : i \in S} :
        /\ Cardinality({i \in S : fv_episodes[i].duration_seconds < d}) <= Cardinality(S) \div 2
        /\ Cardinality({i \in S : fv_episodes[i].duration_seconds <= d}) > Cardinality(S) \div 2

\* the observation an episode contributes when the episodes at the places in S
\* are fitted: its count, rescaled to the median duration when durations are known
observation(i, S, rescaled) ==
    IF rescaled
    THEN float(fv_episodes[i].count * median_duration(S), fv_episodes[i].duration_seconds)
    ELSE float(fv_episodes[i].count, 1)

\* the bucket of an observation: rounded, at least 0, at most MAX_BUCKET
bucket_of(x) ==
    LET r == round_half_even(x) IN
    IF r < 0 THEN 0 ELSE IF r > MAX_BUCKET THEN MAX_BUCKET ELSE r

\* the estimate is fitted on exactly one observation per episode at the places
\* in S: their number, their mean, their sample variance, their histogram
fitted_on(S, rescaled) ==
    LET fv == result.fv
        n == Cardinality(S)
        obs == [i \in 1..Len(fv_episodes) |->
                    IF i \in S THEN observation(i, S, rescaled) ELSE Zero]
        mean == fdiv(range_sum(obs, 1, Len(fv_episodes)), float(n, 1))
        squares == [i \in 1..Len(fv_episodes) |->
                    IF i \in S THEN fmul(fsub(obs[i], mean), fsub(obs[i], mean)) ELSE Zero]
    IN /\ fv.lookback_episodes = n
       /\ n > 0 =>
            /\ fv.mean = mean
            /\ fv.variance = fdiv(range_sum(squares, 1, Len(fv_episodes)),
                                  float(IF n > 2 THEN n - 1 ELSE 1, 1))
            /\ \A k \in Buckets :
                    fv.empirical_pmf[k] =
                        float(Cardinality({i \in S : bucket_of(obs[i]) = k}), n)

\* C20 as stated: calculate_fair_value fits on the most recent `lookback`
\* episodes of the result, or on all of them if fewer exist: lookback_episodes
\* is min(lookback, N) and each of those episodes contributes exactly one
\* observation to the mean, the variance and the empirical histogram.
C20_original ==
    (estimated /\ query.lookback >= 0) =>
        fitted_on(lookback_places, timed_places # {})

\* C20 amended: for lookback >= 0, calculate_fair_value fits on the most recent
\* min(lookback, N) episodes when none of them has a positive duration, and
\* otherwise on those of them that have one: lookback_episodes is the number
\* of the episodes fitted, and each of them contributes exactly one
\* observation to the mean, the variance and the empirical histogram.
C20_amended ==
    (estimated /\ query.lookback >= 0) =>
        IF timed_places = {} THEN fitted_on(lookback_places, FALSE)
        ELSE fitted_on(timed_places, TRUE)

\* a lookback of 10 over ten episodes, five of them without a duration: five
\* observations, rescaled
C20_witness ==
    /\ estimated
    /\ query.lookback = 10
    /\ Len(fv_episodes) = 10
    /\ Cardinality(timed_places) = 5
    /\ result.fv.lookback_episodes = 5
    /\ flt(Zero, result.fv.mean)

\* C21: a Zero-Inflated-NB table is produced only when the Negative-Binomial
\* table is there, the data is overdispersed, and the observed zero fraction
\* (the empirical table's bucket 0) is at least 30% and exceeds the
\* Negative-Binomial P(X=0) by more than 0.15; and whenever it is produced the
\* mixture weight pi is there and lies in [0, 0.999].
C21_zinb_conditions ==
    (estimated /\ result.fv.zinb_pmf # <<>>) =>
        LET fv == result.fv IN
        /\ fv.negbin_pmf # <<>>
        /\ fv.overdispersed
        /\ fle(float(3, 10), fv.empirical_pmf[0])
        /\ flt(fadd(fv.negbin_pmf[0], float(15, 100)), fv.empirical_pmf[0])
        /\ fv.pi_estimate # <<>>
        /\ fle(Zero, fv.pi_estimate)
        /\ fle(fv.pi_estimate, float(999, 1000))

\* a Zero-Inflated-NB table with a positive mixture weight, for a sample with
\* mentions in some episodes and none in others
C21_witness ==
    /\ estimated
    /\ result.fv.zinb_pmf # <<>>
    /\ result.fv.zinb_sf # <<>>
    /\ flt(Zero, result.fv.pi_estimate)
    /\ flt(result.fv.empirical_pmf[0], One)

\* the lookback sample has a positive mean and a sample variance above 1.2
\* times the mean
sample_overdispersed ==
    /\ flt(Zero, result.fv.mean)
    /\ flt(fmul(result.fv.mean, float(12, 10)), result.fv.variance)

\* the recommended table is the Zero-Inflated-NB or the Negative-Binomial one
selected_zinb_or_negbin ==
    \/ result.fv.zinb_pmf # <<>> /\ result.rec_pmf = result.fv.zinb_pmf
    \/ result.fv.negbin_pmf # <<>> /\ result.rec_pmf = result.fv.negbin_pmf

\* C22 as stated: whenever the lookback sample has positive mean and an
\* (n-1)-denominator sample variance greater than 1.2 times the mean, the
\* overdispersion flag is set and the selected model is Zero-Inflated-NB or
\* Negative-Binomial, never plain Poisson.
C22_original ==
    (estimated /\ sample_overdispersed) =>
        /\ result.fv.overdispersed
        /\ selected_zinb_or_negbin

\* C22 amended: for such a sample the overdispersion flag is set; when scipy
\* is available the selected model is Zero-Inflated-NB or Negative-Binomial;
\* without scipy neither table exists and the selected model is the empirical
\* one for 10 or more lookback episodes and plain Poisson for fewer.
C22_amended ==
    (estimated /\ sample_overdispersed) =>
        /\ result.fv.overdispersed
        /\ HAS_SCIPY => selected_zinb_or_negbin
        /\ ~HAS_SCIPY =>
            /\ result.fv.negbin_pmf = <<>>
            /\ result.fv.zinb_pmf = <<>>
            /\ result.rec_pmf = IF result.fv.lookback_episodes >= 10
                                THEN result.fv.empirical_pmf ELSE result.fv.poisson_pmf

\* the twenty episodes 3,3,3,3,0,0,0,0,0,0,3,3,3,3,3,3,0,0,0,0 with scipy:
\* mean 3/2, variance 45/19, and a Negative-Binomial family table selected
C22_witness ==
    /\ estimated
    /\ HAS_SCIPY
    /\ query.lookback = 20
    /\ [i \in 1..Len(fv_episodes) |-> fv_episodes[i].count]
            = <<3, 3, 3, 3, 0, 0, 0, 0, 0, 0, 3, 3, 3, 3, 3, 3, 0, 0, 0, 0>>
    /\ result.fv.mean = float(3, 2)
    /\ result.fv.variance = float(45, 19)
    /\ sample_overdispersed
    /\ selected_zinb_or_negbin
    /\ result.rec_pmf # result.fv.poisson_pmf

\* C30 as stated: in every FairValueResult the zero_inflated flag is true only
\* if a Zero-Inflated-NB table was fitted: zero_inflated implies that zinb_pmf
\* and pi_estimate are present and that the data is overdispersed.
C30_original ==
    (estimated /\ result.fv.zero_inflated) =>
        /\ result.fv.zinb_pmf # <<>>
        /\ result.fv.pi_estimate # <<>>
        /\ result.fv.overdispersed

\* the P(X=0) the estimate predicts: the Negative-Binomial table's when that
\* table was fitted, the Poisson table's otherwise
predicted_p0 ==
    IF result.fv.negbin_pmf # <<>> THEN result.fv.negbin_pmf[0] ELSE result.fv.poisson_pmf[0]

\* C30 amended: zero_inflated reports the detection, not the fit: for an
\* estimate from at least one episode it is true exactly when the observed
\* zero fraction is at least 30% and exceeds the predicted P(X=0) by more than
\* 0.15; a Zero-Inflated-NB table implies zero_inflated, overdispersed and a
\* pi_estimate, and pi_estimate is present exactly when the table is.
C30_amended ==
    estimated =>
        LET fv == result.fv IN
        /\ fv.lookback_episodes > 0 =>
            (fv.zero_inflated <=>
                /\ fle(float(3, 10), fv.empirical_pmf[0])
                /\ flt(fadd(predicted_p0, float(15, 100)), fv.empirical_pmf[0]))
        /\ fv.lookback_episodes = 0 => ~fv.zero_inflated
        /\ fv.zinb_pmf # <<>> =>
            fv.zero_inflated /\ fv.overdispersed /\ fv.pi_estimate # <<>>
        /\ (fv.pi_estimate # <<>>) <=> (fv.zinb_pmf # <<>>)

\* ten episodes 3,3,3,3,3,3,3,0,0,0 with scipy: mean and variance 21/10, not
\* overdispersed, zero fraction 3/10: flagged zero_inflated with no table
C30_witness ==
    /\ estimated
    /\ HAS_SCIPY
    /\ [i \in 1..Len(fv_episodes) |-> fv_episodes[i].count] = <<3, 3, 3, 3, 3, 3, 3, 0, 0, 0>>
    /\ query.lookback = 10
    /\ result.fv.mean = float(21, 10)
    /\ result.fv.variance = float(21, 10)
    /\ ~result.fv.overdispersed
    /\ result.fv.zero_inflated
    /\ result.fv.zinb_pmf = <<>>
    /\ result.fv.pi_estimate = <<>>

----------------------------------------------------------------------------
(* Handlers running concurrently on the store (server.py).  Flask serves   *)
(* each request on a thread of its own and api_upload starts a background  *)
(* thread for deferred indexing; no handler takes a lock or opens a        *)
(* transaction around its calls, so every Database call, and every         *)
(* statement of an executescript, is a step of its own between which the   *)
(* other threads may run.                                                  *)

\* the tables search() reads, as they stand
store_now == [episodes |-> episodes, word_frequencies |-> word_frequencies]

\* the instants a search under way has lived through: the store at its first
\* query and after every later write, up to its second query
seen_after(eps, wf) ==
    IF in_flight.search.pc = "rows"
    THEN in_flight.search.seen \cup {[episodes |-> eps, word_frequencies |-> wf]}
    ELSE in_flight.search.seen

\* bound: how many writes of other threads one search lives through between
\* its two queries
MaxOverlap == 2

\* bound: how many episodes are uploaded beside the running handlers
MaxUploads == 1

\* a write step may run: the search under way, if any, has room for it
may_write ==
    in_flight.search.pc = "rows" => Cardinality(in_flight.search.seen) <= MaxOverlap

\* keyword of the searches that run beside the writers
ConcurrentKeywords == {<<"j","o","y">>}

\* the uploads that run beside them: one transcript with the keyword, one without
ConcurrentSources ==
    {src \in EpisodeSources : src.transcript \in {TranscriptShort, TranscriptDrugs}}

\* search(), line 279: raw_rows = db.get_words_containing(term, episode_ids)
search_get_words_containing(keyword, filter) ==
    /\ in_flight.search.pc = "idle"
    /\ result.status = "none"
    /\ query' = [keyword |-> keyword, episode_ids |-> filter]
    /\ in_flight' = [in_flight EXCEPT
            !.search = [pc |-> "rows",
                        raw_rows |-> get_words_containing(lower(strip(keyword)), filter),
                        seen |-> {store_now}]]
    /\ UNCHANGED <<episodes, last_id, word_frequencies, minute_frequencies,
                   snowball_installed, HAS_SCIPY, match_vars, result>>

\* search(), lines 282-315: the aggregation, then
\* all_eps = db.get_episode_list_indexed(episode_ids) and the SearchResult
search_get_episode_list_indexed ==
    /\ in_flight.search.pc = "rows"
    /\ result' = search_result_from(lower(strip(query.keyword)), in_flight.search.raw_rows,
                                    get_episode_list_indexed(query.episode_ids))
    /\ in_flight' = [in_flight EXCEPT !.search.pc = "done", !.search.raw_rows = {}]
    /\ UNCHANGED <<episodes, last_id, word_frequencies, minute_frequencies,
                   snowball_installed, HAS_SCIPY, match_vars, query>>

\* search() returns: the caller is done with the SearchResult
search_return ==
    /\ in_flight.search.pc = "done"
    /\ result' = NoResult
    /\ query' = NoQuery
    /\ in_flight' = [in_flight EXCEPT !.search = NoHandlers.search]
    /\ UNCHANGED <<episodes, last_id, word_frequencies, minute_frequencies,
                   snowball_installed, HAS_SCIPY, match_vars>>

\* api_upload: db.insert_episode, the indexing left to an index_episode call
upload_insert_episode(src) ==
    /\ last_id < MaxUploads
    /\ may_write
    /\ last_id' = last_id + 1
    /\ episodes' = episodes \cup
            {[id |-> last_id + 1,
              episode_date |-> src.episode_date,
              duration_seconds |-> src.duration_seconds,
              transcript |-> src.transcript,
              indexed_at |-> FALSE]}
    /\ in_flight' = [in_flight EXCEPT !.search.seen = seen_after(episodes', word_frequencies)]
    /\ UNCHANGED <<word_frequencies, minute_frequencies, snowball_installed, HAS_SCIPY,
                   match_vars, result, query>>

\* index_episode, lines 94-105: ep = db.get_episode(video_id) and
\* build_frequencies on its transcript; returns False for no such episode
index_get_episode(episode_id) ==
    /\ in_flight.index.pc = "idle"
    /\ \E e \in episodes : e.id = episode_id
    /\ LET ep == CHOOSE e \in episodes : e.id = episode_id
           built == build_frequencies(snowball_installed, ep.transcript)
       IN in_flight' = [in_flight EXCEPT
            !.index = [pc |-> "built", episode_id |-> episode_id,
                       episode_freq |-> built.episode_freq,
                       minute_freq |-> built.minute_freq]]
    /\ UNCHANGED <<episodes, last_id, word_frequencies, minute_frequencies,
                   snowball_installed, HAS_SCIPY, match_vars, result, query>>

\* index_episode, line 107: db.upsert_word_frequencies(video_id, episode_freq)
index_upsert_word_frequencies ==
    /\ in_flight.index.pc = "built"
    /\ may_write
    /\ word_frequencies' = upsert_word_frequencies(word_frequencies,
            in_flight.index.episode_id, in_flight.index.episode_freq)
    /\ in_flight' = [in_flight EXCEPT !.index.pc = "words",
                                      !.search.seen = seen_after(episodes, word_frequencies')]
    /\ UNCHANGED <<episodes, last_id, minute_frequencies, snowball_installed, HAS_SCIPY,
                   match_vars, result, query>>

\* index_episode, line 108: db.upsert_minute_frequencies(video_id, minute_freq)
index_upsert_minute_frequencies ==
    /\ in_flight.index.pc = "words"
    /\ minute_frequencies' = upsert_minute_frequencies(minute_frequencies,
            in_flight.index.episode_id, in_flight.index.minute_freq)
    /\ in_flight' = [in_flight EXCEPT !.index.pc = "minutes"]
    /\ UNCHANGED <<episodes, last_id, word_frequencies, snowball_installed, HAS_SCIPY,
                   match_vars, result, query>>

\* index_episode, line 109: db.mark_indexed(video_id), and the return
index_mark_indexed ==
    /\ in_flight.index.pc = "minutes"
    /\ may_write
    /\ episodes' = mark_indexed(episodes, in_flight.index.episode_id)
    /\ in_flight' = [in_flight EXCEPT !.index = NoHandlers.index,
                                      !.search.seen = seen_after(episodes', word_frequencies)]
    /\ UNCHANGED <<last_id, word_frequencies, minute_frequencies, snowball_installed,
                   HAS_SCIPY, match_vars, result, query>>

\* api_reindex, db.reset_index(): DELETE FROM word_frequencies
reset_index_word_frequencies ==
    /\ in_flight.reindex.pc = "idle"
    /\ may_write
    /\ word_frequencies' = {}
    /\ in_flight' = [in_flight EXCEPT !.reindex.pc = "words",
                                      !.search.seen = seen_after(episodes, word_frequencies')]
    /\ UNCHANGED <<episodes, last_id, minute_frequencies, snowball_installed, HAS_SCIPY,
                   match_vars, result, query>>

\* db.reset_index(): DELETE FROM minute_frequencies
reset_index_minute_frequencies ==
    /\ in_flight.reindex.pc = "words"
    /\ minute_frequencies' = {}
    /\ in_flight' = [in_flight EXCEPT !.reindex.pc = "minutes"]
    /\ UNCHANGED <<episodes, last_id, word_frequencies, snowball_installed, HAS_SCIPY,
                   match_vars, result, query>>

\* db.reset_index(): UPDATE episodes SET indexed_at = NULL
reset_index_indexed_at ==
    /\ in_flight.reindex.pc = "minutes"
    /\ may_write
    /\ episodes' = {[e EXCEPT !.indexed_at = FALSE] : e \in episodes}
    /\ in_flight' = [in_flight EXCEPT !.reindex.pc = "reset",
                                      !.search.seen = seen_after(episodes', word_frequencies)]
    /\ UNCHANGED <<last_id, word_frequencies, minute_frequencies, snowball_installed,
                   HAS_SCIPY, match_vars, result, query>>

\* api_reindex, index_all(db): the loop reaches ep["video_id"] for the first
\* episode without indexed_at; the rows of get_all_episodes have no such key
index_all ==
    /\ in_flight.reindex.pc = "reset"
    /\ in_flight' = [in_flight EXCEPT
            !.reindex.pc = IF \E e \in episodes : ~e.indexed_at THEN "KeyError" ELSE "returned 0"]
    /\ UNCHANGED <<episodes, last_id, word_frequencies, minute_frequencies,
                   snowball_installed, HAS_SCIPY, match_vars, result, query>>

\* api_reindex ends: with the count as its response, or with the exception
api_reindex_return ==
    /\ in_flight.reindex.pc \in {"KeyError", "returned 0"}
    /\ in_flight' = [in_flight EXCEPT !.reindex.pc = "idle"]
    /\ UNCHANGED <<episodes, last_id, word_frequencies, minute_frequencies,
                   snowball_installed, HAS_SCIPY, match_vars, result, query>>

\* db.delete_episode: SELECT id FROM episodes WHERE id = ?; returns False
\* for no row
delete_episode_select(episode_id) ==
    /\ in_flight.delete.pc = "idle"
    /\ \E e \in episodes : e.id = episode_id
    /\ in_flight' = [in_flight EXCEPT !.delete = [pc |-> "found", episode_id |-> episode_id]]
    /\ UNCHANGED <<episodes, last_id, word_frequencies, minute_frequencies,
                   snowball_installed, HAS_SCIPY, match_vars, result, query>>

\* db.delete_episode: DELETE FROM word_frequencies WHERE episode_id = ...
delete_episode_word_frequencies ==
    /\ in_flight.delete.pc = "found"
    /\ may_write
    /\ word_frequencies' =
            {r \in word_frequencies : r.episode_id # in_flight.delete.episode_id}
    /\ in_flight' = [in_flight EXCEPT !.delete.pc = "words",
                                      !.search.seen = seen_after(episodes, word_frequencies')]
    /\ UNCHANGED <<episodes, last_id, minute_frequencies, snowball_installed, HAS_SCIPY,
                   match_vars, result, query>>

\* db.delete_episode: DELETE FROM minute_frequencies WHERE episode_id = ...
delete_episode_minute_frequencies ==
    /\ in_flight.delete.pc = "words"
    /\ minute_frequencies' =
            {r \in minute_frequencies : r.episode_id # in_flight.delete.episode_id}
    /\ in_flight' = [in_flight EXCEPT !.delete.pc = "minutes"]
    /\ UNCHANGED <<episodes, last_id, word_frequencies, snowball_installed, HAS_SCIPY,
                   match_vars, result, query>>

\* db.delete_episode: DELETE FROM episodes WHERE id = ..., and the return
delete_episode_row ==
    /\ in_flight.delete.pc = "minutes"
    /\ may_write
    /\ episodes' = {e \in episodes : e.id # in_flight.delete.episode_id}
    /\ in_flight' = [in_flight EXCEPT !.delete = NoHandlers.delete,
                                      !.search.seen = seen_after(episodes', word_frequencies)]
    /\ UNCHANGED <<last_id, word_frequencies, minute_frequencies, snowball_installed,
                   HAS_SCIPY, match_vars, result, query>>

InitConcurrent ==
    /\ EmptyStore
    /\ snowball_installed = FALSE
    /\ HAS_SCIPY = FALSE
    /\ in_flight = NoHandlers
    /\ result = NoResult
    /\ query = NoQuery
    /\ word = <<>>
    /\ term = <<>>
    /\ outcome = "pending"

NextConcurrent ==
    \/ \E src \in ConcurrentSources : upload_insert_episode(src)
    \/ \E id \in 1..MaxUploads : index_get_episode(id)
    \/ index_upsert_word_frequencies
    \/ index_upsert_minute_frequencies
    \/ index_mark_indexed
    \/ reset_index_word_frequencies
    \/ reset_index_minute_frequencies
    \/ reset_index_indexed_at
    \/ index_all
    \/ api_reindex_return
    \/ \E id \in 1..MaxUploads : delete_episode_select(id)
    \/ delete_episode_word_frequencies
    \/ delete_episode_minute_frequencies
    \/ delete_episode_row
    \/ \E k \in ConcurrentKeywords : search_get_words_containing(k, NoFilter)
    \/ search_get_episode_list_indexed
    \/ search_return

SpecConcurrent == InitConcurrent /\ [][NextConcurrent]_vars

----------------------------------------------------------------------------
(* Claims about concurrent handlers, checked under SpecConcurrent.         *)

\* C23: a search reads one consistent snapshot of the frequency store: every
\* SearchResult equals what search would return on the store as it stood at
\* a single instant between the search's first and last query.
C23_snapshot_read ==
    result.status = "ok" =>
        \E store \in in_flight.search.seen :
            LET t == lower(strip(query.keyword)) IN
            result = search_result_from(t,
                        get_words_containing_at(store, t, query.episode_ids),
                        get_episode_list_indexed_at(store, query.episode_ids))

\* C28: in every reachable state of the store an episode whose indexed_at is
\* set has a word-frequency row for every word of its transcript.
C28_indexed_has_rows ==
    \A e \in episodes :
        e.indexed_at =>
            \A f \in build_frequencies(snowball_installed, e.transcript).episode_freq :
                \E r \in word_frequencies :
                    r.episode_id = e.id /\ r.word = f.word /\ r.count = f.count

----------------------------------------------------------------------------
(* Further claims about search_multi_adjacent, checked under SpecMulti.    *)

\* the per-term results api_search hands to the call under way
individual_results_of_query ==
    [k \in 1..Len(query.terms) |-> search_result(query.terms[k], query.episode_ids)]

\* C24: in AND mode search_multi_adjacent applies the same zero-episode
\* filter as intersect_results: on the same per-term results the call returns
\* a SearchResult in which an episode has count 0 exactly when it has count 0
\* in the intersect_results result.  The first episode in which every term
\* has a mention sends the call into db.get_transcript, which raises.
C24_and_filter ==
    (result.status # "none" /\ query.mode = "and") =>
        /\ result.status = "ok"
        /\ LET both == intersect_results(query.keyword, individual_results_of_query) IN
           \A i \in 1..Len(both.episodes) :
                (count_in_result(result, both.episodes[i].episode_id) = 0)
                    <=> (both.episodes[i].count = 0)

\* a term list with every term lower-cased
lowered_terms(terms) == [k \in 1..Len(terms) |-> lower(terms[k])]

\* what the same request gives with its terms in lower case
result_of_lowered_query ==
    LET terms == lowered_terms(query.terms) IN
    search_multi_adjacent_result(query.keyword, terms,
        [k \in 1..Len(terms) |-> search_result(terms[k], query.episode_ids)],
        query.mode, query.episode_ids)

\* C27: search counts do not depend on the letter case of the terms: a
\* comma-separated multi-term query ('Joe, Biden') returns a SearchResult
\* whose episode counts are those of the query with the terms lower-cased
\* ('joe, biden').  With an indexed episode that mentions a term, both
\* requests end in db.get_transcript, which raises, and neither gives counts.
C27_case_independent ==
    (result.status # "none" /\ query.mode \in Modes
        /\ lowered_terms(query.terms) # query.terms) =>
        /\ result.status = "ok"
        /\ result_of_lowered_query.status = "ok"
        /\ \A i \in 1..Len(result.episodes) :
                result.episodes[i].count =
                    count_in_result(result_of_lowered_query, result.episodes[i].episode_id)

\* the sum of the counts of a minute breakdown
RECURSIVE sum_of_minutes(_)
sum_of_minutes(items) ==
    IF items = {} THEN 0
    ELSE LET it == CHOOSE x \in items : TRUE
         IN it.count + sum_of_minutes(items \ {it})

\* C25: get_minute_breakdown_multi_adjacent is consistent with
\* search_multi_adjacent: for every indexed episode and term list in OR mode
\* the call returns per-minute counts whose sum is that episode's count in
\* the search_multi_adjacent result.  Its first statement is
\* db.get_transcript(episode_id), which raises.
C25_minutes_match ==
    (result.status # "none" /\ query.mode = "minutes"
        /\ \E e \in episodes : e.id = query.episode_ids.ids[1] /\ e.indexed_at) =>
        /\ result.status = "ok"
        /\ LET main == search_multi_adjacent_result(query.keyword, query.terms,
                            individual_results_of_query, "or", query.episode_ids)
           IN /\ main.status = "ok"
              /\ sum_of_minutes(result.minute_counts)
                    = count_in_result(main, query.episode_ids.ids[1])

----------------------------------------------------------------------------
(* build_frequencies (analyzer.py) on its own: Init draws a transcript and *)
(* the one action builds its two tables.  minute_freq is kept here as the  *)
(* nested dict the function returns, {minute: {word: count}}.              *)

\* a slip: minute_freq[minute] touched once per segment, before its words
minute_keys_per_segment(installed, transcript) ==
    {minute_of(transcript[j].start) : j \in 1..Len(transcript)}

\* the keys of minute_freq: the defaultdict makes an entry for a minute when
\* `minute_freq[minute][word] += 1` first runs for it, so for the minutes of
\* the segments that have a token
minute_keys(installed, transcript) ==
    {minute_of(transcript[j].start) :
        j \in {i \in 1..Len(transcript) : tokenize(installed, transcript[i].text) # <<>>}}

\* the return of build_frequencies: episode_freq as the set of its
\* (word, count) items, minute_freq as the set of its (minute, table) items,
\* a table being the set of the (word, count) items of that minute
build_frequency_dicts(installed, transcript) ==
    LET built == build_frequencies(installed, transcript) IN
    [episode_freq |-> built.episode_freq,
     minute_freq |->
        {[minute |-> m,
          table |-> {[word |-> f.word, count |-> f.count] :
                        f \in {g \in built.minute_freq : g.minute = m}}] :
            m \in minute_keys(installed, transcript)}]

\* bound: how many segments a transcript has
MaxSegments == 3

\* start times (seconds) of the segments: minute 0 twice, minute 1, minute 2
SegmentStarts == {0, 59, 60, 125}

\* texts of the segments: silence, no letter, a word and its plural, two words
SegmentTexts ==
    {<<>>,
     <<"2"," ">>,
     <<"J","o","y"," ","j","o","y","s">>,
     <<"s"," ","j","o","y">>}

Segments == {[start |-> st, text |-> tx] : st \in SegmentStarts, tx \in SegmentTexts}

Transcripts == UNION {[1..n -> Segments] : n \in 0..MaxSegments}

InitFrequencies ==
    /\ EmptyStore
    /\ snowball_installed \in BOOLEAN
    /\ HAS_SCIPY = FALSE
    /\ in_flight = NoHandlers
    /\ word = <<>>
    /\ term = <<>>
    /\ outcome = "pending"
    /\ result = NoResult
    /\ \E transcript \in Transcripts : query = [transcript |-> transcript]

call_build_frequencies ==
    /\ outcome = "pending"
    /\ LET built == build_frequency_dicts(snowball_installed, query.transcript) IN
       result' = [status |-> "ok", episode_freq |-> built.episode_freq,
                  minute_freq |-> built.minute_freq]
    /\ outcome' = "build_frequencies"
    /\ UNCHANGED <<word, term, store_vars, query>>

NextFrequencies == call_build_frequencies

SpecFrequencies == InitFrequencies /\ [][NextFrequencies]_vars

----------------------------------------------------------------------------
(* Claims about build_frequencies, checked under SpecFrequencies.          *)

\* the count of word w in a table (a set of (word, count) items), 0 without one
count_in_table(table, w) ==
    IF \E f \in table : f.word = w THEN (CHOOSE f \in table : f.word = w).count ELSE 0

\* the sum over the minute tables of the count of word w
RECURSIVE sum_over_minutes(_, _)
sum_over_minutes(minute_items, w) ==
    IF minute_items = {} THEN 0
    ELSE LET it == CHOOSE x \in minute_items : TRUE
         IN count_in_table(it.table, w) + sum_over_minutes(minute_items \ {it}, w)

\* C26: for every transcript build_frequencies returns tables in which, for
\* every word, the per-episode count equals the sum over all minutes of that
\* word's per-minute count, every stored count is at least 1, and no minute
\* key maps to an empty table.
C26_tables_consistent ==
    outcome = "build_frequencies" =>
        /\ \A f \in result.episode_freq :
                f.count >= 1 /\ f.count = sum_over_minutes(result.minute_freq, f.word)
        /\ \A it \in result.minute_freq :
                /\ it.table # {}
                /\ \A f \in it.table :
                        /\ f.count >= 1
                        /\ \E g \in result.episode_freq : g.word = f.word

\* a word counted in two different minutes, beside a minute whose only
\* segment has no token
C26_witness ==
    /\ outcome = "build_frequencies"
    /\ \E f \in result.episode_freq :
            /\ f.count >= 2
            /\ \E a, b \in result.minute_freq :
                    a.minute # b.minute /\ count_in_table(a.table, f.word) >= 1
                                        /\ count_in_table(b.table, f.word) >= 1
                                        /\ f.count = sum_over_minutes(result.minute_freq, f.word)
    /\ \E j \in 1..Len(query.transcript) :
            /\ tokenize(snowball_installed, query.transcript[j].text) = <<>>
            /\ \A it \in result.minute_freq : it.minute # minute_of(query.transcript[j].start)

====
